---- MODULE Spec2Model ----
(***************************************************************************)
(* Delivery fee calculation and refund settlement of one delivery          *)
(* transaction (src/app/domain/delivery.py): the lines (DeliverySku), the  *)
(* products, the delivery groups, the order, the payment with its point    *)
(* units, the outstanding record and the refund ledger.                    *)
(*                                                                         *)
(* Money is counted in whole currency units (one model unit stands for     *)
(* 1000 KRW).  The outstanding record is kept in payment.outstandings as   *)
(* JSON whose Decimal encoder is int(v); on whole amounts the encoder and  *)
(* the parser return the same number, so the record is modelled by its     *)
(* parsed content and its kind (payment record, cancellation record, "").  *)
(***************************************************************************)
EXTENDS Integers, Sequences, FiniteSets, TLC

VARIABLES
    sku,              \* DeliverySku fields per line
    product,          \* DeliveryProduct derived fields per product
    group,            \* DeliveryGroup derived fields per group
    order,            \* DeliveryOrder current amounts
    trx_status,       \* DeliveryTransaction.status
    payment,          \* DeliveryPayment: outstandings, init_pg_amount, curr_pg_amount
    point_units,      \* DeliveryPayment.delivery_point_units (index = id)
    payment_refunds,  \* DeliveryPayment.delivery_payment_refunds
    events,           \* the events queues of the payment, the transaction and the lines
    level,            \* DeliveryTracking.level of the tracking of the lines
    now,              \* the clock that time_util.current_time reads
    call              \* the operation that ran last, with its arguments

vars == <<sku, product, group, order, trx_status, payment, point_units,
          payment_refunds, events, level, now, call>>

None == "None"

----------------------------------------------------------------------------
(* Bounds of the model *)

MaxPointUnits == 2      \* point units ever created on the payment
MaxRefunds == 2         \* ledger entries kept in payment_refunds
MaxExpected == 4        \* largest expected_refund_amount a caller passes
MaxEvents == 2          \* events waiting in one queue
MaxGroupPv == 16        \* largest group_pv_amount calculate_fees adds up to
MaxTime == 3            \* latest time on the clock
MaxDebt == 2            \* largest amount by which a point unit leaves 0..init_point_amount

----------------------------------------------------------------------------
(* DeliverySku.Status and the status classes *)

PAYMENT_REQUIRED == "payment_required"
CHECK_REQUIRED == "check_required"
ORDER_FINISHED == "order_finished"
ORDER_FINISHED_REVIEWED == "order_finished_reviewed"
REFUND_REQUESTED == "refund_requested"
EXCHANGE_REQUESTED == "exchange_requested"
REFUND_FAIL_RETURN_NO == "refund_fail_return_no"
REFUND_FAIL_INSPECT_REJECTED_DO == "refund_fail_inspect_rejected_do"
REFUND_FAIL_AGREE_REJECTED == "refund_fail_agree_rejected"
UNSELECTED_IN_CART == "unselected"
REFUND_FINISHED_NORMAL == "refund_finished_normal"
REFUND_FINISHED_ORDER_CANCELED == "refund_finished_order_canceled"
REFUND_FINISHED_ORDER_CANCELED_CONFIRMED == "refund_finished_order_canceled_confirmed"
REFUND_FINISHED_CHECK_REJECTED == "refund_finished_check_rejected"
REFUND_FINISHED_SHIP_REJECTED == "refund_finished_ship_rejected"
PAYMENT_FAIL_VALIDATION == "payment_fail_validation"
PAYMENT_FAIL_INVALID_PAYMENT_TRIAL == "payment_fail_invalid_payment_trial"
PAYMENT_FAIL_TIME_OUT == "payment_fail_time_out"
PAYMENT_FAIL_ERROR == "payment_fail_error"
PAYMENT_FAIL_POINT_ERROR == "payment_fail_point_error"
SHIP_OK == "ship_ok"
DELIVERY_ING == "delivery_ing"
DELIVERY_OK == "delivery_ok"
REFUND_FAIL_INSPECT_REJECTED == "refund_fail_inspect_rejected"
EXCHANGE_FAIL_INSPECT_REJECTED == "exchange_fail_inspect_rejected"
EXCHANGE_FAIL_INSPECT_REJECTED_DO == "exchange_fail_inspect_rejected_do"
EXCHANGE_FAIL_RESHIP_REJECTED == "exchange_fail_reship_rejected"
EXCHANGE_FAIL_RESHIP_REJECTED_DO == "exchange_fail_reship_rejected_do"
EXCHANGE_RESHIP_OK == "exchange_reship_ok"
EXCHANGE_DELIVERY_ING == "exchange_delivery_ing"
EXCHANGE_DELIVERY_OK == "exchange_delivery_ok"
ORDER_FAIL_CHECK_REJECTED == "order_fail_check_rejected"
ORDER_FAIL_SHIP_REJECTED == "order_fail_ship_rejected"
REFUND_INSPECT_PASS == "refund_inspect_pass"
REFUND_CHECKED == "refund_checked"
REFUND_AGREED == "refund_agreed"
REFUND_RETURN_OK == "refund_return_ok"

not_countable_statuses ==
    { UNSELECTED_IN_CART,
      REFUND_FINISHED_NORMAL,
      REFUND_FINISHED_ORDER_CANCELED,
      REFUND_FINISHED_ORDER_CANCELED_CONFIRMED,
      REFUND_FINISHED_CHECK_REJECTED,
      REFUND_FINISHED_SHIP_REJECTED,
      PAYMENT_FAIL_VALIDATION,
      PAYMENT_FAIL_INVALID_PAYMENT_TRIAL,
      PAYMENT_FAIL_TIME_OUT,
      PAYMENT_FAIL_ERROR,
      PAYMENT_FAIL_POINT_ERROR }

request_status_date_updatables ==
    {PAYMENT_REQUIRED, CHECK_REQUIRED, EXCHANGE_REQUESTED, REFUND_REQUESTED}

\* DeliveryTransaction.Status
TRX_PAYMENT_REQUIRED == "payment_required"
TRX_PAID == "paid"
TRX_PAYMENT_IN_PROGRESS == "payment_in_progress"
TRX_FAILED == "failed"

----------------------------------------------------------------------------
(* The aggregate: four lines in three products in two delivery groups.     *)
(* GroupOf is the usual layout, g1 the group of two products and g2 the    *)
(* group of one; a product record names its own group in delivery_group,   *)
(* and the cancellation layout puts p1 alone in g1.                        *)

Lines == {"s1", "s2", "s3", "s4"}
Products == {"p1", "p2", "p3"}
Groups == {"g1", "g2"}

ProductOf(l) == IF l \in {"s1", "s2"} THEN "p1" ELSE IF l = "s3" THEN "p2" ELSE "p3"
GroupOf(p) == IF p \in {"p1", "p2"} THEN "g1" ELSE "g2"
SkusOf(p) == {l \in Lines : ProductOf(l) = p}
\* DeliveryGroup.products: the products prs that name group g as their group
ProductsOf(g, prs) == {p \in Products : prs[p].delivery_group = g}
\* DeliverySku.delivery_group_id
delivery_group_id(l) == product[ProductOf(l)].delivery_group

quantity(l) == IF l = "s1" THEN 2 ELSE 1
sell_price(l) == IF l = "s4" THEN 3 ELSE 2

----------------------------------------------------------------------------
(* Helpers on sequences *)

RECURSIVE SumSeq(_)
SumSeq(s) == IF s = <<>> THEN 0 ELSE Head(s) + SumSeq(Tail(s))

\* sum of f[x] over the members x of S
RECURSIVE SumOver(_, _)
SumOver(S, f) ==
    IF S = {} THEN 0
    ELSE LET x == CHOOSE y \in S : TRUE IN f[x] + SumOver(S \ {x}, f)

\* Python's s[a:b] for 0 <= a, 0 <= b
Slice(s, a, b) ==
    LET hi == IF b > Len(s) THEN Len(s) ELSE b
    IN  IF a >= hi THEN <<>> ELSE SubSeq(s, a + 1, hi)

\* the orders in which a Python set with the members S can be iterated
IterationOrders(S) ==
    {s \in [1..Cardinality(S) -> S] : \A i, j \in 1..Cardinality(S) : i # j => s[i] # s[j]}

\* list.sort(key=lambda x: x.priority): a stable sort, equal keys keep their order
RECURSIVE InsertByPriority(_, _)
InsertByPriority(sorted, x) ==
    IF sorted = <<>> THEN <<x>>
    ELSE IF x.priority < Head(sorted).priority THEN <<x>> \o sorted
    ELSE <<Head(sorted)>> \o InsertByPriority(Tail(sorted), x)

RECURSIVE SortByPriority(_)
SortByPriority(s) ==
    IF s = <<>> THEN <<>>
    ELSE InsertByPriority(SortByPriority(SubSeq(s, 1, Len(s) - 1)), s[Len(s)])

----------------------------------------------------------------------------
(* Fee aggregation: line -> product -> group -> order *)

FREE == "free"
UNIT_CHARGE == "unit_charge"
CONDITIONAL_CHARGE == "conditional_charge"
REGULAR_CHARGE == "regular_charge"

\* geo_utils.RegionId
MAINLAND == 1
JEJU == 2
OUTSIDE_JEJU == 3

CeilDiv(a, b) == (a + b - 1) \div b

Max(S) == CHOOSE x \in S : \A y \in S : y <= x
Min(S) == CHOOSE x \in S : \A y \in S : x <= y

countable(st) == st \notin not_countable_statuses

\* every schedule is read as a three-tier schedule
calculate_region_additional_delivery_fee_ThreeTier(region_id, region_division_level, delivery_info) ==
    IF delivery_info.is_additional_pricing_set
    THEN IF region_division_level = 0 THEN 0
         ELSE IF region_id = MAINLAND THEN 0
              ELSE IF region_id = JEJU THEN delivery_info.division3_jeju_fee
              ELSE delivery_info.division3_outside_jeju_fee
    ELSE 0

\* geo_utils.calculate_region_additional_delivery_fee; a region_division_level
\* of None is written 0
calculate_region_additional_delivery_fee(region_id, region_division_level, delivery_info) ==
    IF delivery_info.is_additional_pricing_set
    THEN IF region_division_level = 0 THEN 0
         ELSE IF region_division_level = 2
              THEN IF region_id = MAINLAND THEN 0 ELSE delivery_info.division2_fee
              ELSE IF region_id = MAINLAND THEN 0
                   ELSE IF region_id = JEJU THEN delivery_info.division3_jeju_fee
                   ELSE delivery_info.division3_outside_jeju_fee
    ELSE 0

\* DeliveryGroup.get_original_region_additional_delivery_fee: the surcharge of
\* the group's region under the group's schedule
get_original_region_additional_delivery_fee(g) ==
    calculate_region_additional_delivery_fee(g.region_id, g.region_division_level, g)

\* DeliveryOrder.calculate_fees, first loop: sku_pv_amount of every line
SkuPvAmounts(sk) ==
    [l \in Lines |->
        [sk[l] EXCEPT !.sku_pv_amount =
            IF countable(sk[l].status) THEN quantity(l) * sell_price(l) ELSE 0]]

\* the value of the product is summed over all its lines, countable or not
ProductCalculateDeliveryFee_AllLines(p, pr, sk) ==
    LET cnt == {l \in SkusOf(p) : countable(sk[l].status)}
        number_of_skus_to_consider == Cardinality(cnt)
        number_of_quantity_to_consider == Cardinality(cnt)
        product_pv_amount == SumOver(SkusOf(p), [l \in Lines |-> sk[l].sku_pv_amount])
        counted == [pr EXCEPT !.number_of_skus_to_consider = number_of_skus_to_consider,
                              !.number_of_quantity_to_consider = number_of_quantity_to_consider,
                              !.product_pv_amount = product_pv_amount]
        method == pr.delivery_pricing_method
        fee(v) == [rec |-> [counted EXCEPT !.curr_calculated_product_delivery_fee = v],
                   raised |-> FALSE]
    IN  IF ~pr.delivery_info THEN fee(0)
        ELSE IF number_of_skus_to_consider = 0 THEN fee(0)
        ELSE IF method = CONDITIONAL_CHARGE
             THEN IF product_pv_amount >= pr.charge_standard THEN fee(0)
                  ELSE fee(pr.base_delivery_fee)
        ELSE IF method = UNIT_CHARGE
             THEN fee(pr.base_delivery_fee
                      * CeilDiv(number_of_quantity_to_consider, pr.charge_standard))
        ELSE IF method = REGULAR_CHARGE THEN fee(pr.base_delivery_fee)
        ELSE IF method = FREE THEN fee(0)
        ELSE [rec |-> counted, raised |-> TRUE]

\* DeliveryProduct.calculate_delivery_fee on product p (record pr), lines sk.
\* The result carries raised = TRUE when InvalidPricingMethod is raised; the
\* counts and product_pv_amount are written before the method is looked at.
ProductCalculateDeliveryFee(p, pr, sk) ==
    LET cnt == {l \in SkusOf(p) : countable(sk[l].status)}
        number_of_skus_to_consider == Cardinality(cnt)
        number_of_quantity_to_consider == Cardinality(cnt)
        product_pv_amount == SumOver(cnt, [l \in Lines |-> sk[l].sku_pv_amount])
        counted == [pr EXCEPT !.number_of_skus_to_consider = number_of_skus_to_consider,
                              !.number_of_quantity_to_consider = number_of_quantity_to_consider,
                              !.product_pv_amount = product_pv_amount]
        method == pr.delivery_pricing_method
        fee(v) == [rec |-> [counted EXCEPT !.curr_calculated_product_delivery_fee = v],
                   raised |-> FALSE]
    IN  IF ~pr.delivery_info THEN fee(0)
        ELSE IF number_of_skus_to_consider = 0 THEN fee(0)
        ELSE IF method = CONDITIONAL_CHARGE
             THEN IF product_pv_amount >= pr.charge_standard THEN fee(0)
                  ELSE fee(pr.base_delivery_fee)
        ELSE IF method = UNIT_CHARGE
             THEN fee(pr.base_delivery_fee
                      * CeilDiv(number_of_quantity_to_consider, pr.charge_standard))
        ELSE IF method = REGULAR_CHARGE THEN fee(pr.base_delivery_fee)
        ELSE IF method = FREE THEN fee(0)
        ELSE [rec |-> counted, raised |-> TRUE]

\* DeliveryProduct.calculate_product_pv_amount
ProductCalculatePvAmount(p, pr, sk) ==
    [pr EXCEPT !.product_pv_amount =
        SumOver({l \in SkusOf(p) : countable(sk[l].status)},
                [l \in Lines |-> sk[l].sku_pv_amount])]

\* the fee is selected among the fees of all products of the group
GroupCalculateDeliveryFee_AllProducts(g, gr, prs, sk) ==
    LET ps == ProductsOf(g, prs)
        is_group_delivery == gr.supplier_delivery_group_id # ""
        is_group_calculation_required ==
            SumOver(ps, [p \in Products |-> prs[p].number_of_quantity_to_consider]) > 0
        original == get_original_region_additional_delivery_fee(gr)
        out(f, d, r) == [gr EXCEPT !.curr_calculated_group_delivery_fee = f,
                                   !.curr_group_delivery_discount = d,
                                   !.curr_region_additional_delivery_fee = r]
        total == SumOver(ps, [p \in Products |-> prs[p].curr_calculated_product_delivery_fee])
        price_list == {prs[p].curr_calculated_product_delivery_fee :
                          p \in ps}
        selected == IF gr.calculation_method = "max" THEN Max(price_list) ELSE Min(price_list)
        only_product == CHOOSE p \in ps : TRUE
        units == CeilDiv(SumOver({l \in SkusOf(only_product) : countable(sk[l].status)},
                                 [l \in Lines |-> quantity(l)]),
                         prs[only_product].charge_standard)
    IN  IF ~is_group_calculation_required THEN out(0, 0, 0)
        ELSE IF is_group_delivery
             THEN IF price_list # {} THEN out(total, total - selected, original)
                  ELSE out(0, 0, 0)
        ELSE IF prs[only_product].number_of_skus_to_consider = 0 THEN out(0, 0, 0)
        ELSE out(prs[only_product].curr_calculated_product_delivery_fee, 0,
                 IF prs[only_product].delivery_pricing_method = UNIT_CHARGE
                 THEN original * units ELSE original)

\* DeliveryGroup.calculate_delivery_fee on group g (record gr), products prs, lines sk
GroupCalculateDeliveryFee(g, gr, prs, sk) ==
    LET ps == ProductsOf(g, prs)
        is_group_delivery == gr.supplier_delivery_group_id # ""
        is_group_calculation_required ==
            SumOver(ps, [p \in Products |-> prs[p].number_of_quantity_to_consider]) > 0
        original == get_original_region_additional_delivery_fee(gr)
        out(f, d, r) == [gr EXCEPT !.curr_calculated_group_delivery_fee = f,
                                   !.curr_group_delivery_discount = d,
                                   !.curr_region_additional_delivery_fee = r]
        total == SumOver(ps, [p \in Products |-> prs[p].curr_calculated_product_delivery_fee])
        price_list == {prs[p].curr_calculated_product_delivery_fee :
                          p \in {q \in ps : prs[q].number_of_skus_to_consider # 0}}
        selected == IF gr.calculation_method = "max" THEN Max(price_list) ELSE Min(price_list)
        only_product == CHOOSE p \in ps : TRUE
        units == CeilDiv(SumOver({l \in SkusOf(only_product) : countable(sk[l].status)},
                                 [l \in Lines |-> quantity(l)]),
                         prs[only_product].charge_standard)
    IN  IF ~is_group_calculation_required THEN out(0, 0, 0)
        ELSE IF is_group_delivery
             THEN IF price_list # {} THEN out(total, total - selected, original)
                  ELSE out(0, 0, 0)
        ELSE IF prs[only_product].number_of_skus_to_consider = 0 THEN out(0, 0, 0)
        ELSE out(prs[only_product].curr_calculated_product_delivery_fee, 0,
                 IF prs[only_product].delivery_pricing_method = UNIT_CHARGE
                 THEN original * units ELSE original)

\* DeliveryGroup.calculate_group_pv_amount
GroupCalculatePvAmount(g, gr, prs) ==
    [gr EXCEPT !.group_pv_amount =
        @ + SumOver(ProductsOf(g, prs), [p \in Products |-> prs[p].product_pv_amount])]

GroupNetFee(gr) ==
    gr.curr_calculated_group_delivery_fee + gr.curr_region_additional_delivery_fee
        - gr.curr_group_delivery_discount

\* the fee of the order is summed from the groups as they were before the pass
CalculateFees_StaleGroups(sk, prs, grs, ord) ==
    LET sk1 == SkuPvAmounts(sk)
        prs1 == [p \in Products |->
                    ProductCalculatePvAmount(p, ProductCalculateDeliveryFee(p, prs[p], sk1).rec, sk1)]
        grs1 == [g \in Groups |->
                    GroupCalculatePvAmount(g, GroupCalculateDeliveryFee(g, grs[g], prs1, sk1), prs1)]
    IN  [sku |-> sk1, product |-> prs1, group |-> grs1,
         order |-> [ord EXCEPT
            !.curr_delivery_order_pv_amount = SumOver(Lines, [l \in Lines |-> sk1[l].sku_pv_amount]),
            !.curr_delivery_order_delivery_fee = SumOver(Groups, [g \in Groups |-> GroupNetFee(grs[g])])]]

\* DeliveryOrder.calculate_fees when no product raises: the new lines, products,
\* groups and order
CalculateFees(sk, prs, grs, ord) ==
    LET sk1 == SkuPvAmounts(sk)
        prs1 == [p \in Products |->
                    ProductCalculatePvAmount(p, ProductCalculateDeliveryFee(p, prs[p], sk1).rec, sk1)]
        grs1 == [g \in Groups |->
                    GroupCalculatePvAmount(g, GroupCalculateDeliveryFee(g, grs[g], prs1, sk1), prs1)]
    IN  [sku |-> sk1, product |-> prs1, group |-> grs1,
         order |-> [ord EXCEPT
            !.curr_delivery_order_pv_amount = SumOver(Lines, [l \in Lines |-> sk1[l].sku_pv_amount]),
            !.curr_delivery_order_delivery_fee = SumOver(Groups, [g \in Groups |-> GroupNetFee(grs1[g])])]]

\* what a caller sees when InvalidPricingMethod leaves the named operation
RaisedInCalculateFees == [name |-> "InvalidPricingMethod", raised_in |-> "calculate_fees"]

RaisedInProduct ==
    [name |-> "InvalidPricingMethod", raised_in |-> "product.calculate_delivery_fee"]

RaisedOnGroup ==
    [name |-> "InvalidPricingMethod", raised_in |-> "calculate_delivery_fee_on_group"]

RaisedInRefundPrice ==
    [name |-> "InvalidPricingMethod",
     raised_in |-> "calculate_refund_price_on_partial_cancelation"]

RaisedInReturnFee ==
    [name |-> "InvalidPricingMethod", raised_in |-> "calculate_return_delivery_fee"]

\* the products of ps whose calculate_delivery_fee raises InvalidPricingMethod
\* on the lines sk
Raising(ps, prs, sk) == {p \in ps : ProductCalculateDeliveryFee(p, prs[p], sk).raised}

\* DeliveryOrder.calculate_fees when product r raises InvalidPricingMethod:
\* every sku_pv_amount is written, the products in done (the ones the loop
\* over the set delivery_products took before r) are recomputed, r has its
\* counts and product_pv_amount written, and nothing else is
CalculateFeesRaised(sk, prs, r, done) ==
    LET sk1 == SkuPvAmounts(sk)
    IN  [sku |-> sk1,
         product |-> [p \in Products |->
            IF p \in done
            THEN ProductCalculatePvAmount(p, ProductCalculateDeliveryFee(p, prs[p], sk1).rec, sk1)
            ELSE IF p = r THEN ProductCalculateDeliveryFee(p, prs[p], sk1).rec
            ELSE prs[p]]]

----------------------------------------------------------------------------
(* The state after construction (DeliveryOrder._create runs calculate_fees) *)

DEFAULT == "default"
CUSTOMER_CHARGE_CARD_CANCEL == "customer_charge_card_cancel"

\* the time at which the order is created: the default of request_status_date
CreationTime == 1

NewSku ==
    [status |-> PAYMENT_REQUIRED, request_status |-> PAYMENT_REQUIRED, sku_pv_amount |-> 0,
     request_status_date |-> CreationTime, purchased_finalized_date |-> 0,
     refund_delivery_fee_method |-> DEFAULT, calculated_refund_delivery_fee |-> 0]

NewProduct(delivery_group, method, base, standard) ==
    [delivery_group |-> delivery_group,
     refund_delivery_fee |-> 1, refund_delivery_fee_if_free_delivery |-> 2,
     delivery_info |-> TRUE, delivery_pricing_method |-> method,
     base_delivery_fee |-> base, charge_standard |-> standard,
     number_of_skus_to_consider |-> 0, number_of_quantity_to_consider |-> 0,
     product_pv_amount |-> 0, curr_calculated_product_delivery_fee |-> 0]

NewGroup(sdg_id, method, region, division_level) ==
    [supplier_delivery_group_id |-> sdg_id, calculation_method |-> method,
     region_id |-> region, region_division_level |-> division_level,
     is_additional_pricing_set |-> TRUE,
     division2_fee |-> 3, division3_jeju_fee |-> 1, division3_outside_jeju_fee |-> 2,
     loss_fee |-> 0,
     curr_calculated_group_delivery_fee |-> 0, curr_group_delivery_discount |-> 0,
     curr_region_additional_delivery_fee |-> 0, group_pv_amount |-> 0]

NewOrder == [curr_delivery_order_pv_amount |-> 0, curr_delivery_order_delivery_fee |-> 0]

NoOutstandings == [kind |-> "empty"]

NewPayment == [outstandings |-> NoOutstandings, init_pg_amount |-> 0, curr_pg_amount |-> 0]

NoEvents == [payment |-> <<>>, transaction |-> <<>>, sku |-> <<>>]

\* the aggregate built from products prs and groups grs, fees calculated once
CreatedFrom(sk, prs, grs) ==
    LET c == CalculateFees(sk, prs, grs, NewOrder)
    IN  /\ sku = c.sku
        /\ product = c.product
        /\ group = c.group
        /\ order = c.order
        /\ trx_status = TRX_PAYMENT_REQUIRED
        /\ payment = NewPayment
        /\ point_units = <<>>
        /\ payment_refunds = <<>>
        /\ events = NoEvents
        /\ level = 0
        /\ now = CreationTime
        /\ call = [name |-> "create"]

Created(prs, grs) == CreatedFrom([l \in Lines |-> NewSku], prs, grs)

\* the aggregate as DeliveryOrder._create has it when it calls calculate_fees:
\* the lines, products and groups are made and no fee is calculated yet
Constructed(prs, grs) ==
    /\ sku = [l \in Lines |-> NewSku]
    /\ product = prs
    /\ group = grs
    /\ order = NewOrder
    /\ trx_status = TRX_PAYMENT_REQUIRED
    /\ payment = NewPayment
    /\ point_units = <<>>
    /\ payment_refunds = <<>>
    /\ events = NoEvents
    /\ level = 0
    /\ now = CreationTime
    /\ call = [name |-> "create"]

----------------------------------------------------------------------------
(* Payment: the outstanding record and the point units *)

maxsize == 2147483647   \* sys.maxsize, larger than every list length

\* Schemas.DeliveryPointUnitORM.from_orm
from_orm(pu) ==
    [id |-> pu.id, init_point_amount |-> pu.init_point_amount,
     curr_point_amount |-> pu.curr_point_amount, refund_amount |-> pu.refund_amount,
     priority |-> pu.priority, delivery_sku_id |-> pu.delivery_sku_id, processed |-> FALSE]

PaymentOutstandings(pg_amount, points) ==
    [kind |-> "payment", pg_amount |-> pg_amount, point_units |-> points]

PgPointParserOnCancellation(points_to_cancel, refund_amount, partial, sku_id) ==
    [kind |-> "cancel", points_to_cancel |-> points_to_cancel,
     pg_to_cancel |-> [refund_amount |-> refund_amount, partial |-> partial,
                       processed |-> FALSE, delivery_sku_id |-> sku_id],
     refund_context_sku_id |-> sku_id]

Amounts(points) == [i \in 1..Len(points) |-> points[i].requested_point_amount]

\* DeliveryPayment.set_payment_outstandings: the pg_amount it computes
PaymentPgAmount(ord, points) ==
    ord.curr_delivery_order_pv_amount + ord.curr_delivery_order_delivery_fee
        - SumSeq(Amounts(points))

\* only the lines whose order is finished keep a line from being the last
is_last_sku_FinishedOnly(l, sk) ==
    \A m \in Lines :
        (m # l /\ delivery_group_id(m) = delivery_group_id(l)) =>
            sk[m].status \notin {ORDER_FINISHED, ORDER_FINISHED_REVIEWED}

\* DeliverySku.is_last_sku
is_last_sku(l, sk) ==
    \A m \in Lines :
        (m # l /\ delivery_group_id(m) = delivery_group_id(l)) =>
            /\ sk[m].status \notin {ORDER_FINISHED, ORDER_FINISHED_REVIEWED}
            /\ sk[m].status \in not_countable_statuses

\* DeliverySku.calculate_max_limit_refundable_amount_on_partial_cancelation
calculate_max_limit_refundable_amount_on_partial_cancelation(l, refund_amount, pmt, pus) ==
    LET mine == {i \in 1..Len(pus) : pus[i].delivery_sku_id \in {None, l}}
        max_limit_refundable_amount ==
            pmt.curr_pg_amount + SumOver(mine, [i \in 1..Len(pus) |-> pus[i].curr_point_amount])
    IN  IF refund_amount >= max_limit_refundable_amount
        THEN max_limit_refundable_amount ELSE refund_amount

\* DeliverySku.settle_refund_amount, the loop of the last-line branch over the
\* point units in iteration order iter, from position i on
RECURSIVE SettleLast(_, _, _, _, _)
SettleLast(l, pus, iter, i, acc) ==
    IF i > Len(iter) THEN acc
    ELSE LET pu == pus[iter[i]]
             a1 == IF pu.delivery_sku_id = None
                   THEN [acc EXCEPT !.units = Append(@, pu)] ELSE acc
             a2 == IF pu.delivery_group_id # None /\ pu.delivery_group_id = delivery_group_id(l)
                   THEN [a1 EXCEPT !.units = Append(@, pu),
                                   !.refund_amount =
                                       IF pu.delivery_sku_id # l
                                       THEN @ + pu.curr_point_amount ELSE @]
                   ELSE a1
         IN  SettleLast(l, pus, iter, i + 1, a2)

\* DeliverySku.settle_refund_amount: [units, refund_amount]
settle_refund_amount(l, expected_refund_amount, sk, grs, pmt, pus, iter) ==
    IF is_last_sku(l, sk)
    THEN SettleLast(l, pus, iter, 1,
            [units |-> <<>>,
             refund_amount |->
                expected_refund_amount - grs[delivery_group_id(l)].loss_fee
                - (IF sk[l].refund_delivery_fee_method = CUSTOMER_CHARGE_CARD_CANCEL
                   THEN sk[l].calculated_refund_delivery_fee ELSE 0)])
    ELSE [units |-> SelectSeq([i \in 1..Len(iter) |-> pus[iter[i]]],
                              LAMBDA pu : pu.delivery_sku_id \in {None, l}),
          refund_amount |->
             calculate_max_limit_refundable_amount_on_partial_cancelation(
                 l, expected_refund_amount, pmt, pus)]

\* the for loop of set_partial_cancelation_outstandings from position i on, with
\* amt still to refund: the point units as changed, the value of `order` after
\* the loop and the amount charged on the gateway
RECURSIVE Apportion(_, _, _)
Apportion(pts, i, amt) ==
    IF i > Len(pts) THEN [points |-> pts, order |-> Len(pts), charge_amount_on_pg |-> amt]
    ELSE IF amt - pts[i].curr_point_amount > 0
    THEN Apportion([pts EXCEPT ![i].refund_amount = @ + pts[i].curr_point_amount,
                               ![i].curr_point_amount = 0],
                   i + 1, amt - pts[i].curr_point_amount)
    ELSE [points |-> [pts EXCEPT ![i].curr_point_amount = @ - amt,
                                 ![i].refund_amount = @ + amt],
          order |-> i, charge_amount_on_pg |-> 0]

\* the two parts are left in the order given, not sorted by priority
Prioritize_Unsorted(units) ==
    LET schemas == [i \in 1..Len(units) |-> from_orm(units[i])]
    IN  SelectSeq(schemas, LAMBDA x : x.delivery_sku_id # None)
            \o SelectSeq(schemas, LAMBDA x : x.delivery_sku_id = None)

\* "Prioritize What Points To Subtract": line point units first, then the
\* point units of the transaction, each part sorted by priority
Prioritize(units) ==
    LET schemas == [i \in 1..Len(units) |-> from_orm(units[i])]
        sku_point_units == SelectSeq(schemas, LAMBDA x : x.delivery_sku_id # None)
        delivery_point_units == SelectSeq(schemas, LAMBDA x : x.delivery_sku_id = None)
    IN  SortByPriority(sku_point_units) \o SortByPriority(delivery_point_units)

\* DeliveryPayment.set_partial_cancelation_outstandings: the record it writes
PartialCancelationOutstandings(sku_id, units, refund_amount) ==
    LET point_units_ == Prioritize(units)
        walk == Apportion(point_units_, 1, refund_amount)
        visited == {i \in 1..walk.order : walk.points[i].delivery_sku_id = None}
        index_for_trx_point_unit == IF visited = {} THEN maxsize ELSE Min(visited) - 1
        sliced_point_units == Slice(walk.points, 0, walk.order)
        sku_point_to_cancel ==
            IF index_for_trx_point_unit = maxsize THEN sliced_point_units
            ELSE Slice(sliced_point_units, 0, index_for_trx_point_unit)
        delivery_point_to_cancel ==
            Slice(sliced_point_units, index_for_trx_point_unit, Len(sliced_point_units))
    IN  PgPointParserOnCancellation(sku_point_to_cancel \o delivery_point_to_cancel,
                                    walk.charge_amount_on_pg, TRUE, sku_id)


----------------------------------------------------------------------------
(* Operations of the payment *)

\* the point lists a caller passes to set_payment_outstandings
Pt(amount, priority, sku_id) ==
    [requested_point_amount |-> amount, priority |-> priority, sku_id |-> sku_id]

\* order-wide points of priorities 1 and 2; points of one line before
\* order-wide points of a smaller priority; points of two lines of one group;
\* order-wide points of the same priority; no points
PointLists ==
    { <<Pt(2, 1, None), Pt(5, 2, None)>>,
      <<Pt(5, 1, None), Pt(2, 2, "s1")>>,
      <<Pt(2, 1, "s1"), Pt(5, 1, "s3")>>,
      <<Pt(2, 1, None), Pt(3, 1, None)>>,
      <<>> }

PayPointLists == { <<Pt(2, 1, None), Pt(2, 2, None)>> }

FeePointLists == { <<Pt(2, 1, None)>> }

\* DeliveryPayment.set_payment_outstandings
SetPaymentOutstandings(points) ==
    /\ payment' = [payment EXCEPT !.outstandings =
                      PaymentOutstandings(PaymentPgAmount(order, points), points)]
    /\ call' = [name |-> "set_payment_outstandings"]
    /\ UNCHANGED <<now, level, sku, product, group, order, trx_status, point_units, payment_refunds, events>>

\* DeliveryTransaction.update_status
TransactionUpdateStatus(context) ==
    /\ trx_status' = context
    /\ call' = [name |-> "transaction_update_status"]
    /\ UNCHANGED <<now, level, sku, product, group, order, payment, point_units, payment_refunds, events>>

\* domain_events.PGPaymentCompleted as process_pg_complete_order_result makes it
PGPaymentCompleted ==
    [signature |-> "PGPaymentCompleted", sku_status_to_change |-> CHECK_REQUIRED]

\* the value of `event` when neither branch of process_pg_complete_order_result
\* assigns it: Python's None
NoEvent == [signature |-> None]

\* DeliveryPayment.process_pg_complete_order_result
ProcessPgCompleteOrderResult(res) ==
    /\ call' = [name |-> "process_pg_complete_order_result", res |-> res]
    /\ IF res = "invalid_payment_trial"
       THEN UNCHANGED <<payment, events>>
       ELSE /\ payment.outstandings.kind = "payment"
            /\ Len(events.transaction) < MaxEvents
            /\ IF trx_status = TRX_FAILED
               THEN /\ events' = [events EXCEPT !.transaction = Append(@,
                          [signature |-> "PGPaymentFailed",
                           sku_status_to_change |->
                              IF res = "validation_fail" THEN PAYMENT_FAIL_VALIDATION
                              ELSE PAYMENT_FAIL_ERROR])]
                    /\ UNCHANGED payment
               ELSE IF trx_status = TRX_PAID
               THEN /\ payment' = [payment EXCEPT
                          !.init_pg_amount = payment.outstandings.pg_amount,
                          !.curr_pg_amount = payment.outstandings.pg_amount]
                    /\ events' = [events EXCEPT !.transaction = Append(@, PGPaymentCompleted)]
               ELSE /\ events' = [events EXCEPT !.transaction = Append(@, NoEvent)]
                    /\ UNCHANGED payment
    /\ UNCHANGED <<now, level, sku, product, group, order, trx_status, point_units, payment_refunds>>

\* DeliveryPayment.create_point_units
NewPointUnits(pts, n) ==
    LET kept == SelectSeq(pts, LAMBDA pt : pt.requested_point_amount > 0)
    IN  [i \in 1..Len(kept) |->
            [id |-> n + i,
             init_point_amount |-> kept[i].requested_point_amount,
             curr_point_amount |-> kept[i].requested_point_amount,
             refund_amount |-> 0,
             priority |-> kept[i].priority,
             delivery_sku_id |-> kept[i].sku_id,
             delivery_group_id |->
                IF kept[i].sku_id = None THEN None ELSE delivery_group_id(kept[i].sku_id)]]

CreatePointUnits ==
    /\ payment.outstandings.kind = "payment"
    /\ LET new == NewPointUnits(payment.outstandings.point_units, Len(point_units))
       IN  /\ Len(point_units) + Len(new) <= MaxPointUnits
           /\ point_units' = point_units \o new
    /\ call' = [name |-> "create_point_units"]
    /\ UNCHANGED <<now, level, sku, product, group, order, trx_status, payment, payment_refunds, events>>

\* DeliverySku.settle_refund_amount followed by
\* DeliveryPayment.set_partial_cancelation_outstandings on its result
SetPartialCancelationOutstandings(l, expected_refund_amount, generating_event_required) ==
    \E iter \in IterationOrders(1..Len(point_units)) :
        LET settled == settle_refund_amount(l, expected_refund_amount, sku, group,
                                            payment, point_units, iter)
            out == PartialCancelationOutstandings(l, settled.units, settled.refund_amount)
        IN  /\ payment' = [payment EXCEPT !.outstandings = out]
            /\ IF generating_event_required
               THEN /\ Len(events.payment) < MaxEvents
                    /\ events' = [events EXCEPT !.payment = Append(@,
                          [signature |-> "PartialOrderCancelRequested",
                           sku_id_for_cancelation |-> l,
                           pg_cancel_required |-> out.pg_to_cancel.refund_amount > 0,
                           point_cancel_required |-> Len(out.points_to_cancel) > 0])]
               ELSE UNCHANGED events
            /\ call' = [name |-> "set_partial_cancelation_outstandings", sku_id |-> l,
                        expected_refund_amount |-> expected_refund_amount,
                        refund_amount |-> settled.refund_amount,
                        units |-> {settled.units[i].id : i \in 1..Len(settled.units)}]
            /\ UNCHANGED <<now, level, sku, product, group, order, trx_status, point_units, payment_refunds>>

\* DeliverySku.get_refund_amount_on_cs_modal on line l: settle_refund_amount,
\* set_partial_cancelation_outstandings without an event, and the three
\* amounts read back from the record
GetRefundAmountOnCsModal(l, expected_refund_amount) ==
    \E iter \in IterationOrders(1..Len(point_units)) :
        LET settled == settle_refund_amount(l, expected_refund_amount, sku, group,
                                            payment, point_units, iter)
            out == PartialCancelationOutstandings(l, settled.units, settled.refund_amount)
            ptc == out.points_to_cancel
            of_sku == {i \in 1..Len(ptc) : ptc[i].delivery_sku_id # None}
            amounts == [i \in 1..Len(ptc) |-> ptc[i].refund_amount]
        IN  /\ payment' = [payment EXCEPT !.outstandings = out]
            /\ call' = [name |-> "get_refund_amount_on_cs_modal", sku_id |-> l,
                        pg_refund_amount |-> out.pg_to_cancel.refund_amount,
                        sku_point_refund_amount |-> SumOver(of_sku, amounts),
                        point_refund_amount |-> SumOver((1..Len(ptc)) \ of_sku, amounts)]
            /\ UNCHANGED <<now, level, sku, product, group, order, trx_status, point_units,
                           payment_refunds, events>>

\* DeliveryPayment.set_full_cancelation_outstandings
SetFullCancelationOutstandings(pg_refund_amount) ==
    \E iter \in IterationOrders(1..Len(point_units)) :
        LET marked == [i \in 1..Len(point_units) |->
                          IF point_units[i].curr_point_amount = 0 THEN point_units[i]
                          ELSE [point_units[i] EXCEPT !.refund_amount = point_units[i].curr_point_amount]]
        IN  /\ Len(events.payment) < MaxEvents
            /\ point_units' = marked
            /\ payment' = [payment EXCEPT !.outstandings =
                  PgPointParserOnCancellation([i \in 1..Len(iter) |-> from_orm(marked[iter[i]])],
                                              pg_refund_amount, FALSE, None)]
            /\ events' = [events EXCEPT !.payment = Append(@,
                  [signature |-> "OrderCancelRequested", sku_id_for_cancelation |-> None,
                   pg_cancel_required |-> pg_refund_amount > 0,
                   point_cancel_required |->
                      \E i \in 1..Len(point_units) : point_units[i].curr_point_amount # 0])]
            /\ call' = [name |-> "set_full_cancelation_outstandings"]
            /\ UNCHANGED <<now, level, sku, product, group, order, trx_status, payment_refunds>>

\* the entry of the outstanding record for point unit id: the dict built in
\* deduct_point_units keeps the last entry of an id
CancelEntry(points_to_cancel, id) ==
    points_to_cancel[Max({i \in 1..Len(points_to_cancel) : points_to_cancel[i].id = id})]

InRecord(points_to_cancel, id) == \E i \in 1..Len(points_to_cancel) : points_to_cancel[i].id = id

\* the change deduct_point_units makes to point unit pu
DeductOne(pu, points_to_cancel) ==
    IF InRecord(points_to_cancel, pu.id)
    THEN LET refund_amount == CancelEntry(points_to_cancel, pu.id).refund_amount
         IN  [pu EXCEPT !.curr_point_amount = @ - refund_amount,
                        !.refund_amount = @ + refund_amount]
    ELSE pu

\* the amounts of point unit pu leave the range from 0 to init_point_amount
\* by at most MaxDebt
WithinDebt(pu) ==
    /\ pu.curr_point_amount \in -MaxDebt..(pu.init_point_amount + MaxDebt)
    /\ pu.refund_amount \in -MaxDebt..(pu.init_point_amount + MaxDebt)

\* DeliveryPayment.get_cancelation_outstandings: parse_raw raises on a record
\* that is empty or is not one of a cancellation
RaisedInDeduct == [name |-> "ValidationError", raised_in |-> "deduct_point_units"]
RaisedInRefundLogs == [name |-> "ValidationError", raised_in |-> "create_refund_logs"]

\* DeliveryPayment.deduct_point_units
DeductPointUnits ==
    IF payment.outstandings.kind # "cancel"
    THEN /\ call' = RaisedInDeduct
         /\ UNCHANGED <<now, level, sku, product, group, order, trx_status, payment,
                        point_units, payment_refunds, events>>
    ELSE /\ LET ptc == payment.outstandings.points_to_cancel
                live == {point_units[i].id : i \in 1..Len(point_units)}
            IN  /\ point_units' = [i \in 1..Len(point_units) |-> DeductOne(point_units[i], ptc)]
                /\ payment' = [payment EXCEPT !.outstandings.points_to_cancel =
                       [i \in 1..Len(ptc) |->
                           IF ptc[i].id \in live /\ ptc[i] = CancelEntry(ptc, ptc[i].id)
                           THEN [ptc[i] EXCEPT !.processed = TRUE] ELSE ptc[i]]]
         /\ \A i \in 1..Len(point_units) : WithinDebt(point_units'[i])
         /\ call' = [name |-> "deduct_point_units"]
         /\ UNCHANGED <<now, level, sku, product, group, order, trx_status, payment_refunds,
                        events>>

\* DeliveryPayment.create_refund_logs: the entries it appends.  An amount or a
\* point unit id of None is written 0 (no entry is made for an amount of 0).
RefundLogs(out) ==
    LET refunded == SelectSeq(out.points_to_cancel, LAMBDA pu : pu.refund_amount > 0)
    IN  [i \in 1..Len(refunded) |->
            [delivery_sku_id |-> refunded[i].delivery_sku_id,
             point_amount_for_refund |-> refunded[i].refund_amount,
             pg_amount_for_refund |-> 0,
             point_unit_id |-> refunded[i].id,
             refund_context_sku_id |-> out.refund_context_sku_id]]
        \o (IF out.pg_to_cancel.refund_amount > 0
            THEN <<[delivery_sku_id |-> None,
                    point_amount_for_refund |-> 0,
                    pg_amount_for_refund |-> out.pg_to_cancel.refund_amount,
                    point_unit_id |-> 0,
                    refund_context_sku_id |-> out.refund_context_sku_id]>>
            ELSE <<>>)

\* the record is left in place after the entries are appended
CreateRefundLogs_KeepsRecord ==
    IF payment.outstandings.kind # "cancel"
    THEN /\ call' = RaisedInRefundLogs
         /\ UNCHANGED <<now, level, sku, product, group, order, trx_status, payment,
                        point_units, payment_refunds, events>>
    ELSE /\ Len(payment_refunds) + Len(RefundLogs(payment.outstandings)) <= MaxRefunds
         /\ payment_refunds' = payment_refunds \o RefundLogs(payment.outstandings)
         /\ call' = [name |-> "create_refund_logs",
                     refund_context_sku_id |-> payment.outstandings.refund_context_sku_id]
         /\ UNCHANGED <<now, level, sku, product, group, order, trx_status, payment,
                        point_units, events>>

CreateRefundLogs ==
    IF payment.outstandings.kind # "cancel"
    THEN /\ call' = RaisedInRefundLogs
         /\ UNCHANGED <<now, level, sku, product, group, order, trx_status, payment,
                        point_units, payment_refunds, events>>
    ELSE /\ Len(payment_refunds) + Len(RefundLogs(payment.outstandings)) <= MaxRefunds
         /\ payment_refunds' = payment_refunds \o RefundLogs(payment.outstandings)
         /\ payment' = [payment EXCEPT !.outstandings = NoOutstandings]
         /\ call' = [name |-> "create_refund_logs",
                     refund_context_sku_id |-> payment.outstandings.refund_context_sku_id]
         /\ UNCHANGED <<now, level, sku, product, group, order, trx_status, point_units,
                        events>>

\* the keys of the OrderedDict self.events of a repository after
\* self.events[event] = None for the events of queue, popped from the left,
\* starting from the keys collected.  Message.__hash__ and Message.__eq__ take
\* the signature only: an event whose signature is a key already is the same
\* key, and the dict keeps the key it has.
RECURSIVE add_up_events(_, _)
add_up_events(collected, queue) ==
    IF queue = <<>> THEN collected
    ELSE add_up_events(
             IF \E i \in 1..Len(collected) : collected[i].signature = Head(queue).signature
             THEN collected ELSE Append(collected, Head(queue)),
             Tail(queue))

\* AsyncSqlAlchemyRepository._add_up_events of a new repository on the model
\* that owns queue q
AddUpEvents(q) ==
    /\ events[q] # <<>>
    /\ events' = [events EXCEPT ![q] = <<>>]
    /\ call' = [name |-> "add_up_events", model |-> q,
                collected |-> add_up_events(<<>>, events[q])]
    /\ UNCHANGED <<now, level, sku, product, group, order, trx_status, payment, point_units, payment_refunds>>

\* AsyncSqlAlchemyRepository._add_up_events on the DeliveryTransaction of
\* another aggregate.  DeliveryTransaction.events is the dataclass default
\* deque(), one object of the class: an instance made by __init__ gets this
\* object as its attribute, an instance loaded by the mapper has no attribute of
\* its own (there is no load listener for DeliveryTransaction) and reads the
\* class attribute.  The queue of the other transaction is therefore the queue
\* events.transaction.
AddUpEventsOfOtherTransaction ==
    /\ events' = [events EXCEPT !.transaction = <<>>]
    /\ call' = [name |-> "add_up_events_of_other_transaction",
                collected |-> add_up_events(<<>>, events.transaction)]
    /\ UNCHANGED <<now, level, sku, product, group, order, trx_status, payment, point_units, payment_refunds>>


----------------------------------------------------------------------------
(* Operations on the status of a line *)

\* time_util.current_time
current_time == now

\* DeliverySku.create_log on the line sk: DeliverySkuLog.__post_init__ copies the
\* status the line has when the log is made.  delivery_sku_logs only grows and
\* no method reads it: the entries a call appends are kept in its call record.
create_log(sk, delivery_sku_logs) == Append(delivery_sku_logs, sk.status)

\* the clock moves on
Tick ==
    /\ now < MaxTime
    /\ now' = now + 1
    /\ call' = [name |-> "tick"]
    /\ UNCHANGED <<level, sku, product, group, order, trx_status, payment, point_units,
                   payment_refunds, events>>

\* the date of the finalized purchase is stamped on the reviewed order as well
update_status_StampReviewed(sk, context) ==
    LET s1 == [sk EXCEPT !.status = context]
        s2 == IF context \in request_status_date_updatables
              THEN [s1 EXCEPT !.request_status = context,
                              !.request_status_date = current_time]
              ELSE s1
        s3 == IF context \in {ORDER_FINISHED, ORDER_FINISHED_REVIEWED}
              THEN [s2 EXCEPT !.purchased_finalized_date = current_time] ELSE s2
    IN  IF context \in {REFUND_FAIL_RETURN_NO, REFUND_FAIL_INSPECT_REJECTED_DO,
                        REFUND_FAIL_AGREE_REJECTED}
        THEN [s3 EXCEPT !.refund_delivery_fee_method = DEFAULT] ELSE s3

\* DeliverySku.update_status: the line after it
update_status(sk, context) ==
    LET s1 == [sk EXCEPT !.status = context]
        s2 == IF context \in request_status_date_updatables
              THEN [s1 EXCEPT !.request_status = context,
                              !.request_status_date = current_time]
              ELSE s1
        s3 == IF context = ORDER_FINISHED
              THEN [s2 EXCEPT !.purchased_finalized_date = current_time] ELSE s2
    IN  IF context \in {REFUND_FAIL_RETURN_NO, REFUND_FAIL_INSPECT_REJECTED_DO,
                        REFUND_FAIL_AGREE_REJECTED}
        THEN [s3 EXCEPT !.refund_delivery_fee_method = DEFAULT] ELSE s3

UpdateStatus(l, context) ==
    /\ sku' = [sku EXCEPT ![l] = update_status(sku[l], context)]
    /\ call' = [name |-> "update_status", sku_id |-> l, from |-> sku[l].status,
                context |-> context]
    /\ UNCHANGED <<now, level, product, group, order, trx_status, payment, point_units, payment_refunds, events>>

\* DeliverySku.claim_update
ClaimUpdate(l, context) ==
    /\ sku' = [sku EXCEPT ![l] = update_status(sku[l], context)]
    /\ IF context = ORDER_FINISHED
       THEN /\ Len(events.sku) < MaxEvents
            /\ events' = [events EXCEPT !.sku = Append(@,
                  [signature |-> "OrderConfirmed", sku_ids |-> {l}, is_auto |-> FALSE])]
       ELSE UNCHANGED events
    /\ call' = [name |-> "claim_update", sku_id |-> l, from |-> sku[l].status]
    /\ UNCHANGED <<now, level, product, group, order, trx_status, payment, point_units, payment_refunds>>

\* DeliveryTransaction.change_sku_status_in_bulk with a message whose
\* sku_status_to_change is status
ChangeSkuStatusInBulk(status) ==
    /\ sku' = [l \in Lines |->
                 LET updated == update_status(sku[l], status)
                 IN  IF trx_status = TRX_PAID
                     THEN [updated EXCEPT !.request_status_date = current_time,
                                         !.request_status = status]
                     ELSE updated]
    /\ call' = [name |-> "change_sku_status_in_bulk", sku_status_to_change |-> status,
                logs |-> [l \in Lines |-> create_log(sku'[l], <<>>)]]
    /\ UNCHANGED <<now, level, product, group, order, trx_status, payment, point_units,
                   payment_refunds, events>>

\* the two entries of a double step are made after the second step
fastforward_update_LogsAtEnd(sk) ==
    LET two(first, second) ==
            LET s2 == update_status(update_status(sk, first), second)
            IN  [sku |-> s2, logs |-> create_log(s2, create_log(s2, <<>>))]
        one(target) ==
            LET s1 == update_status(sk, target)
            IN  [sku |-> s1, logs |-> create_log(s1, <<>>)]
    IN  IF sk.status = SHIP_OK THEN two(DELIVERY_ING, DELIVERY_OK)
        ELSE IF sk.status = EXCHANGE_RESHIP_OK
        THEN two(EXCHANGE_DELIVERY_ING, EXCHANGE_DELIVERY_OK)
        ELSE IF sk.status = EXCHANGE_FAIL_INSPECT_REJECTED
        THEN one(EXCHANGE_FAIL_INSPECT_REJECTED_DO)
        ELSE IF sk.status = EXCHANGE_FAIL_RESHIP_REJECTED
        THEN one(EXCHANGE_FAIL_RESHIP_REJECTED_DO)
        ELSE IF sk.status = REFUND_FAIL_INSPECT_REJECTED
        THEN one(REFUND_FAIL_INSPECT_REJECTED_DO)
        ELSE [sku |-> sk, logs |-> <<>>]

\* DeliverySku.fastforward_update on the line sk: the line after it and the
\* log entries appended to delivery_sku_logs, in the order of appending
fastforward_update(sk) ==
    LET two(first, second) ==
            LET s1 == update_status(sk, first)
                l1 == create_log(s1, <<>>)
                s2 == update_status(s1, second)
            IN  [sku |-> s2, logs |-> create_log(s2, l1)]
        one(target) ==
            LET s1 == update_status(sk, target)
            IN  [sku |-> s1, logs |-> create_log(s1, <<>>)]
    IN  IF sk.status = SHIP_OK THEN two(DELIVERY_ING, DELIVERY_OK)
        ELSE IF sk.status = EXCHANGE_RESHIP_OK
        THEN two(EXCHANGE_DELIVERY_ING, EXCHANGE_DELIVERY_OK)
        ELSE IF sk.status = EXCHANGE_FAIL_INSPECT_REJECTED
        THEN one(EXCHANGE_FAIL_INSPECT_REJECTED_DO)
        ELSE IF sk.status = EXCHANGE_FAIL_RESHIP_REJECTED
        THEN one(EXCHANGE_FAIL_RESHIP_REJECTED_DO)
        ELSE IF sk.status = REFUND_FAIL_INSPECT_REJECTED
        THEN one(REFUND_FAIL_INSPECT_REJECTED_DO)
        ELSE [sku |-> sk, logs |-> <<>>]

FastforwardUpdate(l) ==
    /\ sku' = [sku EXCEPT ![l] = fastforward_update(sku[l]).sku]
    /\ call' = [name |-> "fastforward_update", sku_id |-> l, from |-> sku[l].status,
                logs |-> fastforward_update(sku[l]).logs]
    /\ UNCHANGED <<now, level, product, group, order, trx_status, payment, point_units,
                   payment_refunds, events>>

\* DeliveryTracking.update_tracking_detail
UpdateTrackingDetail(current_level) ==
    /\ level' = IF level < current_level THEN current_level ELSE level
    /\ call' = [name |-> "update_tracking_detail"]
    /\ UNCHANGED <<now, sku, product, group, order, trx_status, payment, point_units,
                   payment_refunds, events>>

\* at level 6 a line that is still in ship_ok is delivered as well
tracked_DeliveredFromShipOk(st, lv) ==
    IF lv = 6
    THEN IF st \in {DELIVERY_ING, SHIP_OK} THEN DELIVERY_OK
         ELSE IF st = EXCHANGE_FAIL_INSPECT_REJECTED THEN EXCHANGE_FAIL_INSPECT_REJECTED_DO
         ELSE IF st = REFUND_FAIL_INSPECT_REJECTED THEN REFUND_FAIL_INSPECT_REJECTED_DO
         ELSE IF st = EXCHANGE_DELIVERY_ING THEN EXCHANGE_DELIVERY_OK
         ELSE st
    ELSE IF lv \in 2..5
    THEN IF st = SHIP_OK THEN DELIVERY_ING
         ELSE IF st = EXCHANGE_RESHIP_OK THEN EXCHANGE_DELIVERY_ING
         ELSE st
    ELSE st

\* DeliveryTracking.update_skus_on_delivery_tracking_callback: the status of a
\* line in status st at level lv
tracked(st, lv) ==
    IF lv = 6
    THEN IF st = DELIVERY_ING THEN DELIVERY_OK
         ELSE IF st = EXCHANGE_FAIL_INSPECT_REJECTED THEN EXCHANGE_FAIL_INSPECT_REJECTED_DO
         ELSE IF st = REFUND_FAIL_INSPECT_REJECTED THEN REFUND_FAIL_INSPECT_REJECTED_DO
         ELSE IF st = EXCHANGE_DELIVERY_ING THEN EXCHANGE_DELIVERY_OK
         ELSE st
    ELSE IF lv \in 2..5
    THEN IF st = SHIP_OK THEN DELIVERY_ING
         ELSE IF st = EXCHANGE_RESHIP_OK THEN EXCHANGE_DELIVERY_ING
         ELSE st
    ELSE st

UpdateSkusOnDeliveryTrackingCallback ==
    /\ sku' = [l \in Lines |-> [sku[l] EXCEPT !.status = tracked(@, level)]]
    /\ call' = [name |-> "update_skus_on_delivery_tracking_callback",
                logs |-> [l \in Lines |->
                            IF tracked(sku[l].status, level) = sku[l].status THEN <<>>
                            ELSE create_log(sku'[l], <<>>)]]
    /\ UNCHANGED <<now, level, product, group, order, trx_status, payment, point_units,
                   payment_refunds, events>>

\* DeliveryOrder.calculate_fees
OrderCalculateFees ==
    LET c == CalculateFees(sku, product, group, order)
        raising == Raising(Products, product, SkuPvAmounts(sku))
    IN  IF raising = {}
        THEN /\ \A g \in Groups : c.group[g].group_pv_amount <= MaxGroupPv
             /\ sku' = c.sku
             /\ product' = c.product
             /\ group' = c.group
             /\ order' = c.order
             /\ call' = [name |-> "calculate_fees"]
             /\ UNCHANGED <<now, level, trx_status, payment, point_units, payment_refunds, events>>
        ELSE \E r \in raising : \E done \in SUBSET (Products \ raising) :
                LET e == CalculateFeesRaised(sku, product, r, done)
                IN  /\ sku' = e.sku
                    /\ product' = e.product
                    /\ call' = RaisedInCalculateFees
                    /\ UNCHANGED <<now, level, group, order, trx_status, payment, point_units,
                                   payment_refunds, events>>

----------------------------------------------------------------------------
(* Cancellation of one line: the eligible context and the refund price *)

\* DeliveryTransaction.OrderCancelationContext
MARKETPLACE_ORDER_CANCEL == "mp_order_cancel"
BACKOFFICE_ORDER_CANCEL_ON_ClAIM == "backoffice_order_cancel_on_claim"
BACKOFFICE_ORDER_CANCEL_ON_SUPPLIER_REJECTION == "backoffice_order_cancel_on_supplier_rejection"
BACKOFFICE_ORDER_CANCEL_ON_SUPPLIER_CHECK_REJECTION ==
    "backoffice_order_cancel_on_supplier_check_rejection"
BACKOFFICE_ORDER_CANCEL_ON_SUPPLIER_SHIP_REJECTION ==
    "backoffice_order_cancel_on_supplier_ship_rejection"
BACKOFFICE_ORDER_CANCEL_ON_SPECIAL_CASE == "backoffice_order_cancel_on_special_case"

\* DeliverySku._status_mapper, on the contexts it has a key for
status_mapper(refund_context) ==
    CASE refund_context = MARKETPLACE_ORDER_CANCEL -> REFUND_FINISHED_ORDER_CANCELED
      [] refund_context = BACKOFFICE_ORDER_CANCEL_ON_ClAIM -> REFUND_FINISHED_NORMAL
      [] refund_context = BACKOFFICE_ORDER_CANCEL_ON_SUPPLIER_CHECK_REJECTION ->
            REFUND_FINISHED_CHECK_REJECTED
      [] refund_context = BACKOFFICE_ORDER_CANCEL_ON_SUPPLIER_SHIP_REJECTION ->
            REFUND_FINISHED_SHIP_REJECTED
      [] refund_context = BACKOFFICE_ORDER_CANCEL_ON_SPECIAL_CASE ->
            REFUND_FINISHED_ORDER_CANCELED

\* DeliverySku._refundable_cases
refundable_cases == {PAYMENT_REQUIRED, CHECK_REQUIRED}

\* a marketplace cancellation is eligible in every status
get_refund_context_AnyStatus(st, refund_context) ==
    IF refund_context = MARKETPLACE_ORDER_CANCEL
    THEN refund_context
    ELSE IF refund_context = BACKOFFICE_ORDER_CANCEL_ON_ClAIM
    THEN IF st = REFUND_INSPECT_PASS THEN refund_context ELSE ""
    ELSE IF refund_context = BACKOFFICE_ORDER_CANCEL_ON_SUPPLIER_REJECTION
    THEN IF st = ORDER_FAIL_CHECK_REJECTED
         THEN BACKOFFICE_ORDER_CANCEL_ON_SUPPLIER_CHECK_REJECTION
         ELSE IF st = ORDER_FAIL_SHIP_REJECTED
         THEN BACKOFFICE_ORDER_CANCEL_ON_SUPPLIER_SHIP_REJECTION
         ELSE ""
    ELSE ""

\* DeliverySku.get_refund_context on a line of status st: the eligible context,
\* "" when there is none
get_refund_context(st, refund_context) ==
    IF refund_context = MARKETPLACE_ORDER_CANCEL
    THEN IF st \in refundable_cases THEN refund_context ELSE ""
    ELSE IF refund_context = BACKOFFICE_ORDER_CANCEL_ON_ClAIM
    THEN IF st = REFUND_INSPECT_PASS THEN refund_context ELSE ""
    ELSE IF refund_context = BACKOFFICE_ORDER_CANCEL_ON_SUPPLIER_REJECTION
    THEN IF st = ORDER_FAIL_CHECK_REJECTED
         THEN BACKOFFICE_ORDER_CANCEL_ON_SUPPLIER_CHECK_REJECTION
         ELSE IF st = ORDER_FAIL_SHIP_REJECTED
         THEN BACKOFFICE_ORDER_CANCEL_ON_SUPPLIER_SHIP_REJECTION
         ELSE ""
    ELSE ""

\* DeliveryGroup.calculate_delivery_fee_on_group on group g when no product
\* raises: every product of the group, then the group
calculate_delivery_fee_on_group(g, grs, prs, sk) ==
    LET prs1 == [p \in Products |->
                    IF p \in ProductsOf(g, prs)
                    THEN ProductCalculateDeliveryFee(p, prs[p], sk).rec ELSE prs[p]]
    IN  [product |-> prs1,
         group |-> [grs EXCEPT ![g] = GroupCalculateDeliveryFee(g, grs[g], prs1, sk)]]

\* DeliveryGroup.calculate_delivery_fee_on_group when product r raises: the
\* products in done, which the list group.products has before r, are
\* recomputed and r has its counts written; the group is not reached
OnGroupRaised(prs, sk, r, done) ==
    [p \in Products |->
        IF p \in done \cup {r} THEN ProductCalculateDeliveryFee(p, prs[p], sk).rec ELSE prs[p]]

\* DeliverySku.get_delivery_fee_difference for line l of a product with a
\* delivery group: the difference, and the products and groups it leaves
get_delivery_fee_difference(l, refund_context, sk, prs, grs) ==
    LET g == prs[ProductOf(l)].delivery_group
        current == calculate_delivery_fee_on_group(g, grs, prs, sk)
        changed == [sk EXCEPT ![l].status = status_mapper(refund_context)]
        newly == calculate_delivery_fee_on_group(g, current.group, current.product, changed)
    IN  [delivery_fee_difference |-> GroupNetFee(current.group[g]) - GroupNetFee(newly.group[g]),
         product |-> newly.product, group |-> newly.group]

\* DeliverySku.check_if_delivered_for_free for line l
check_if_delivered_for_free(l, prs) ==
    LET ps == ProductsOf(prs[ProductOf(l)].delivery_group, prs)
        counted == {p \in ps : prs[p].number_of_skus_to_consider > 0}
        fee(p) == prs[p].curr_calculated_product_delivery_fee
        current == fee(ProductOf(l))
        number_of_duplicate_delivery_fees == Cardinality({p \in counted : fee(p) = current})
        max_delivery_fees == IF counted # {} THEN Max({fee(p) : p \in counted}) ELSE 0
    IN  ~(max_delivery_fees = current /\ number_of_duplicate_delivery_fees = 1)

\* DeliverySku._calculate_delivery_fee_on_return_check for line l: its
\* calculated_refund_delivery_fee
calculate_delivery_fee_on_return_check(l, is_delivered_for_free, prs, grs) ==
    LET pr == prs[ProductOf(l)]
        gr == grs[pr.delivery_group]
        box_num == IF pr.delivery_pricing_method = UNIT_CHARGE
                   THEN CeilDiv(quantity(l), pr.charge_standard) ELSE 1
        fee == IF is_delivered_for_free THEN pr.refund_delivery_fee_if_free_delivery
               ELSE pr.refund_delivery_fee
        region == get_original_region_additional_delivery_fee(gr)
    IN  fee * box_num
          + (IF gr.supplier_delivery_group_id = "" /\ pr.delivery_pricing_method = UNIT_CHARGE
             THEN region * box_num ELSE region)

\* the statuses in which DeliverySku.calculate_return_delivery_fee calculates
return_fee_statuses ==
    {DELIVERY_OK, REFUND_REQUESTED, REFUND_CHECKED, REFUND_AGREED, REFUND_RETURN_OK,
     REFUND_INSPECT_PASS}

\* the contexts for which calculate_refund_price_on_partial_cancelation
\* calculates a price
priced_contexts ==
    {MARKETPLACE_ORDER_CANCEL, BACKOFFICE_ORDER_CANCEL_ON_SUPPLIER_CHECK_REJECTION,
     BACKOFFICE_ORDER_CANCEL_ON_SUPPLIER_SHIP_REJECTION, BACKOFFICE_ORDER_CANCEL_ON_ClAIM}

\* the contexts in which a negative difference is written to loss_fee
loss_contexts ==
    {BACKOFFICE_ORDER_CANCEL_ON_SUPPLIER_CHECK_REJECTION,
     BACKOFFICE_ORDER_CANCEL_ON_SUPPLIER_SHIP_REJECTION}

Abs(n) == IF n < 0 THEN 0 - n ELSE n

\* DeliveryProduct.calculate_delivery_fee on product p
DeliveryProductCalculateDeliveryFee(p) ==
    LET c == ProductCalculateDeliveryFee(p, product[p], sku)
    IN  /\ product' = [product EXCEPT ![p] = c.rec]
        /\ call' = IF c.raised
                   THEN RaisedInProduct
                   ELSE [name |-> "product.calculate_delivery_fee", product_id |-> p]
        /\ UNCHANGED <<now, level, sku, group, order, trx_status, payment, point_units,
                       payment_refunds, events>>

\* DeliveryGroup.calculate_delivery_fee on group g
DeliveryGroupCalculateDeliveryFee(g) ==
    /\ group' = [group EXCEPT ![g] = GroupCalculateDeliveryFee(g, group[g], product, sku)]
    /\ call' = [name |-> "group.calculate_delivery_fee", group_id |-> g]
    /\ UNCHANGED <<now, level, sku, product, order, trx_status, payment, point_units,
                   payment_refunds, events>>

\* DeliveryGroup.calculate_delivery_fee_on_group on group g
CalculateDeliveryFeeOnGroup(g) ==
    LET raising == Raising(ProductsOf(g, product), product, sku)
        c == calculate_delivery_fee_on_group(g, group, product, sku)
    IN  IF raising = {}
        THEN /\ product' = c.product
             /\ group' = c.group
             /\ call' = [name |-> "calculate_delivery_fee_on_group", group_id |-> g]
             /\ UNCHANGED <<now, level, sku, order, trx_status, payment, point_units,
                            payment_refunds, events>>
        ELSE \E r \in raising : \E done \in SUBSET (ProductsOf(g, product) \ raising) :
                /\ product' = OnGroupRaised(product, sku, r, done)
                /\ call' = RaisedOnGroup
                /\ UNCHANGED <<now, level, sku, group, order, trx_status, payment, point_units,
                               payment_refunds, events>>

\* DeliverySku.get_refund_context on line l
GetRefundContext(l, refund_context) ==
    /\ call' = [name |-> "get_refund_context", sku_id |-> l, refund_context |-> refund_context,
                res |-> get_refund_context(sku[l].status, refund_context)]
    /\ UNCHANGED <<now, level, sku, product, group, order, trx_status, payment, point_units,
                   payment_refunds, events>>

\* DeliverySku.calculate_refund_price_on_partial_cancelation on line l.  The
\* call record keeps what the method returned: returned_none, and the price
\* when there is one; delivery_fee_difference is the difference as
\* get_delivery_fee_difference gave it, calculated is FALSE when the method
\* never asked for it.
CalculateRefundPriceOnPartialCancelation(l, refund_context) ==
    LET g == product[ProductOf(l)].delivery_group
        value == sell_price(l) * quantity(l)
        returned(none, price, calculated, difference) ==
            [name |-> "calculate_refund_price_on_partial_cancelation", sku_id |-> l,
             refund_context |-> refund_context, returned_none |-> none, price |-> price,
             calculated |-> calculated, delivery_fee_difference |-> difference]
        raising == Raising(ProductsOf(g, product), product, sku)
        \* calculate_return_delivery_fee, for the claim context
        on_return == refund_context = BACKOFFICE_ORDER_CANCEL_ON_ClAIM
                        /\ sku[l].status \in return_fee_statuses
        first == calculate_delivery_fee_on_group(g, group, product, sku)
        prs0 == IF on_return THEN first.product ELSE product
        grs0 == IF on_return THEN first.group ELSE group
        sk0 == IF on_return
               THEN [sku EXCEPT ![l].calculated_refund_delivery_fee =
                        calculate_delivery_fee_on_return_check(
                            l, check_if_delivered_for_free(l, prs0), prs0, grs0)]
               ELSE sku
        d == get_delivery_fee_difference(l, refund_context, sk0, prs0, grs0)
        diff == d.delivery_fee_difference
        absorbed == refund_context \in loss_contexts /\ diff < 0
    IN  IF g = None
        THEN /\ call' = returned(FALSE, value, FALSE, 0)
             /\ UNCHANGED <<now, level, sku, product, group, order, trx_status, payment,
                            point_units, payment_refunds, events>>
        ELSE IF refund_context \notin priced_contexts
        THEN /\ call' = returned(TRUE, 0, FALSE, 0)
             /\ UNCHANGED <<now, level, sku, product, group, order, trx_status, payment,
                            point_units, payment_refunds, events>>
        ELSE IF raising # {}
        THEN \E r \in raising : \E done \in SUBSET (ProductsOf(g, product) \ raising) :
                /\ product' = OnGroupRaised(product, sku, r, done)
                /\ call' = RaisedInRefundPrice
                /\ UNCHANGED <<now, level, sku, group, order, trx_status, payment, point_units,
                               payment_refunds, events>>
        ELSE /\ sku' = sk0
             /\ product' = d.product
             /\ IF diff < 0 /\ value < Abs(diff)
                THEN /\ group' = d.group
                     /\ call' = returned(TRUE, 0, TRUE, diff)
                ELSE /\ group' = IF absorbed
                                 THEN [d.group EXCEPT ![g].loss_fee = Abs(diff)]
                                 ELSE d.group
                     /\ call' = returned(FALSE, value + (IF absorbed THEN 0 ELSE diff),
                                         TRUE, diff)
             /\ UNCHANGED <<now, level, order, trx_status, payment, point_units,
                            payment_refunds, events>>

\* DeliverySku.calculate_return_delivery_fee on line l.  The call record keeps
\* whether the method went past its status check and what
\* check_if_delivered_for_free answered.
CalculateReturnDeliveryFee(l) ==
    LET g == product[ProductOf(l)].delivery_group
        raising == Raising(ProductsOf(g, product), product, sku)
        c == calculate_delivery_fee_on_group(g, group, product, sku)
        is_delivered_for_free == check_if_delivered_for_free(l, c.product)
    IN  IF sku[l].status \notin return_fee_statuses
        THEN /\ call' = [name |-> "calculate_return_delivery_fee", sku_id |-> l,
                         calculated |-> FALSE, is_delivered_for_free |-> FALSE]
             /\ UNCHANGED <<now, level, sku, product, group, order, trx_status, payment,
                            point_units, payment_refunds, events>>
        ELSE IF raising # {}
        THEN \E r \in raising : \E done \in SUBSET (ProductsOf(g, product) \ raising) :
                /\ product' = OnGroupRaised(product, sku, r, done)
                /\ call' = RaisedInReturnFee
                /\ UNCHANGED <<now, level, sku, group, order, trx_status, payment, point_units,
                               payment_refunds, events>>
        ELSE /\ product' = c.product
             /\ group' = c.group
             /\ sku' = [sku EXCEPT ![l].calculated_refund_delivery_fee =
                           calculate_delivery_fee_on_return_check(
                               l, is_delivered_for_free, c.product, c.group)]
             /\ call' = [name |-> "calculate_return_delivery_fee", sku_id |-> l,
                         calculated |-> TRUE,
                         is_delivered_for_free |-> is_delivered_for_free]
             /\ UNCHANGED <<now, level, order, trx_status, payment, point_units,
                            payment_refunds, events>>

----------------------------------------------------------------------------
(* Settlement of cancellations: the payment of one order, paid with points *)
(* and the gateway, and the partial and full cancellations of its lines    *)

PayProducts ==
    [p \in Products |->
        IF p = "p1" THEN NewProduct(GroupOf(p), REGULAR_CHARGE, 2, 1)
        ELSE IF p = "p2" THEN NewProduct(GroupOf(p), FREE, 0, 1)
        ELSE NewProduct(GroupOf(p), REGULAR_CHARGE, 1, 1)]

PayGroups ==
    [g \in Groups |->
        IF g = "g1" THEN NewGroup("sdg1", "max", MAINLAND, 0)
        ELSE NewGroup("", "", MAINLAND, 0)]

\* the state after checkout with the point list points: the outstanding record
\* written by set_payment_outstandings, the transaction PAID, the gateway
\* amounts set by process_pg_complete_order_result, units the point units made
\* so far by create_point_units, every line moved to check_required by
\* change_sku_status_in_bulk, and the events collected
PaidOrder(prs, grs, points, units) ==
    LET c == CalculateFees([l \in Lines |-> NewSku], prs, grs, NewOrder)
        pg_amount == PaymentPgAmount(c.order, points)
    IN  /\ now = CreationTime
        /\ sku = [l \in Lines |-> update_status(c.sku[l], CHECK_REQUIRED)]
        /\ product = c.product
        /\ group = c.group
        /\ order = c.order
        /\ trx_status = TRX_PAID
        /\ payment = [outstandings |-> PaymentOutstandings(pg_amount, points),
                      init_pg_amount |-> pg_amount, curr_pg_amount |-> pg_amount]
        /\ point_units = units
        /\ payment_refunds = <<>>
        /\ events = NoEvents
        /\ level = 0
        /\ call = [name |-> "checkout"]

Paid(points, units) == PaidOrder(PayProducts, PayGroups, points, units)

\* a paid order whose point units are still to be made
InitPay == \E points \in PayPointLists : Paid(points, <<>>)

NextPay ==
    \/ CreatePointUnits
    \/ \E l \in {"s3", "s4"}, amount \in {1, 3} :
          SetPartialCancelationOutstandings(l, amount, TRUE)
    \/ SetFullCancelationOutstandings(payment.curr_pg_amount)
    \/ GetRefundAmountOnCsModal("s3", 1)
    \/ DeductPointUnits
    \/ CreateRefundLogs
    \/ AddUpEvents("payment")

\* the methods of the payment called in any order on a paid order
SpecPay == InitPay /\ [][NextPay]_vars

\* lines are cancelled one after the other, each by the steps
\* settle_refund_amount and set_partial_cancelation_outstandings,
\* deduct_point_units, create_refund_logs and the status change of the line
RequestPartialCancel(l, amount) ==
    /\ call.name \in {"checkout", "update_status", "add_up_events"}
    /\ countable(sku[l].status)
    /\ SetPartialCancelationOutstandings(l, amount, TRUE)

DeductOnCancel ==
    /\ call.name = "set_partial_cancelation_outstandings"
    /\ DeductPointUnits

LogOnCancel ==
    /\ call.name = "deduct_point_units"
    /\ CreateRefundLogs

FinishCancel ==
    /\ call.name = "create_refund_logs"
    /\ UpdateStatus(call.refund_context_sku_id, REFUND_FINISHED_ORDER_CANCELED)

CollectOnCancel ==
    /\ call.name = "update_status"
    /\ AddUpEvents("payment")

NextSettle ==
    \/ \E l \in Lines, amount \in 1..MaxExpected : RequestPartialCancel(l, amount)
    \/ DeductOnCancel
    \/ LogOnCancel
    \/ FinishCancel
    \/ CollectOnCancel

InitSettle == \E points \in PointLists : Paid(points, NewPointUnits(points, 0))

SpecSettle == InitSettle /\ [][NextSettle]_vars

----------------------------------------------------------------------------
(* Fees: status changes of the lines of a created order, the aggregation   *)
(* pass and the payment record that reads its results                      *)

\* a second order: unit and conditional charges, a group delivery that keeps
\* the smallest fee, and regional surcharges
FeeProducts ==
    [p \in Products |->
        IF p = "p1" THEN NewProduct(GroupOf(p), UNIT_CHARGE, 1, 2)
        ELSE IF p = "p2" THEN NewProduct(GroupOf(p), CONDITIONAL_CHARGE, 2, 3)
        ELSE NewProduct(GroupOf(p), UNIT_CHARGE, 1, 1)]

FeeGroups ==
    [g \in Groups |->
        IF g = "g1" THEN NewGroup("sdg1", "min", JEJU, 3)
        ELSE NewGroup("", "", OUTSIDE_JEJU, 2)]

InitStatus == Created(PayProducts, PayGroups)

InitFee == Created(PayProducts, PayGroups) \/ Created(FeeProducts, FeeGroups)

NextFee ==
    \/ OrderCalculateFees
    \/ \E context \in {CHECK_REQUIRED, REFUND_FINISHED_ORDER_CANCELED} :
          UpdateStatus("s1", context)
    \/ ClaimUpdate("s3", REFUND_FINISHED_NORMAL)
    \/ \E status \in {CHECK_REQUIRED, PAYMENT_FAIL_ERROR} : ChangeSkuStatusInBulk(status)
    \/ \E points \in FeePointLists : SetPaymentOutstandings(points)

SpecFee == InitFee /\ [][NextFee]_vars

----------------------------------------------------------------------------
(* Statuses: every operation that changes the status of a line *)

NextStatus ==
    \/ \E context \in {REFUND_FINISHED_ORDER_CANCELED, SHIP_OK, REFUND_FAIL_INSPECT_REJECTED,
                       CHECK_REQUIRED} :
          UpdateStatus("s1", context)
    \/ \E context \in {ORDER_FINISHED, EXCHANGE_RESHIP_OK} : ClaimUpdate("s3", context)
    \/ \E status \in {CHECK_REQUIRED, PAYMENT_FAIL_ERROR, PAYMENT_FAIL_POINT_ERROR} :
          ChangeSkuStatusInBulk(status)
    \/ \E context \in {TRX_PAID, TRX_FAILED} : TransactionUpdateStatus(context)
    \/ \E l \in Lines : FastforwardUpdate(l)
    \/ \E current_level \in {3, 6} : UpdateTrackingDetail(current_level)
    \/ UpdateSkusOnDeliveryTrackingCallback
    \/ AddUpEvents("sku")

SpecStatus == InitStatus /\ [][NextStatus]_vars

----------------------------------------------------------------------------
(* Refund price: the fees of the products and groups and the price of the *)
(* cancellation of one line                                               *)

\* p1 alone in g1, which is no supplier delivery group; p2 and p3 in the
\* supplier delivery group g2
CancelProducts ==
    [p \in Products |->
        IF p = "p1" THEN NewProduct("g1", CONDITIONAL_CHARGE, 3, 6)
        ELSE IF p = "p2" THEN NewProduct("g2", REGULAR_CHARGE, 1, 1)
        ELSE NewProduct("g2", REGULAR_CHARGE, 3, 1)]

CancelGroups ==
    [g \in Groups |->
        IF g = "g1" THEN NewGroup("", "", MAINLAND, 0)
        ELSE NewGroup("sdg2", "min", MAINLAND, 0)]

\* p1 has no delivery schedule and p3 an empty pricing method
InvalidProducts ==
    [p \in Products |->
        IF p = "p1" THEN [NewProduct(GroupOf(p), "", 2, 1) EXCEPT !.delivery_info = FALSE]
        ELSE IF p = "p2" THEN NewProduct(GroupOf(p), REGULAR_CHARGE, 2, 1)
        ELSE NewProduct(GroupOf(p), "", 1, 1)]

CancelStatuses == {PAYMENT_REQUIRED, REFUND_FINISHED_ORDER_CANCELED}

CancelContexts ==
    {MARKETPLACE_ORDER_CANCEL, BACKOFFICE_ORDER_CANCEL_ON_SUPPLIER_SHIP_REJECTION,
     BACKOFFICE_ORDER_CANCEL_ON_SPECIAL_CASE}

\* p1 has no delivery schedule
PlainProducts ==
    [p \in Products |->
        IF p = "p1" THEN [NewProduct(GroupOf(p), REGULAR_CHARGE, 2, 1) EXCEPT !.delivery_info = FALSE]
        ELSE IF p = "p2" THEN NewProduct(GroupOf(p), FREE, 2, 1)
        ELSE NewProduct(GroupOf(p), REGULAR_CHARGE, 1, 1)]

InitCancel ==
    \/ Created(FeeProducts, FeeGroups)
    \/ Created(CancelProducts, CancelGroups)
    \/ Created(PlainProducts, PayGroups)

NextCancel ==
    \/ \E l \in {"s2", "s4"} : \E context \in CancelStatuses : UpdateStatus(l, context)
    \/ \E p \in Products : DeliveryProductCalculateDeliveryFee(p)
    \/ \E g \in Groups : DeliveryGroupCalculateDeliveryFee(g)
    \/ \E g \in Groups : CalculateDeliveryFeeOnGroup(g)
    \/ \E l \in {"s1", "s2", "s3"} : \E refund_context \in CancelContexts :
          CalculateRefundPriceOnPartialCancelation(l, refund_context)

SpecCancel == InitCancel /\ [][NextCancel]_vars

\* an order under construction with a product whose pricing method is empty
InitInvalid == Constructed(InvalidProducts, PayGroups)

NextInvalid ==
    \/ OrderCalculateFees
    \/ \E l \in {"s1", "s4"} : \E context \in CancelStatuses : UpdateStatus(l, context)
    \/ \E p \in Products : DeliveryProductCalculateDeliveryFee(p)
    \/ \E g \in Groups : CalculateDeliveryFeeOnGroup(g)
    \/ CalculateRefundPriceOnPartialCancelation("s4", MARKETPLACE_ORDER_CANCEL)

SpecInvalid == InitInvalid /\ [][NextInvalid]_vars

----------------------------------------------------------------------------
(* The surcharge of a region *)

\* the schedules of additional pricing a delivery_info can carry
Schedules ==
    [is_additional_pricing_set : BOOLEAN, division2_fee : {0, 3},
     division3_jeju_fee : {1, 3}, division3_outside_jeju_fee : {2, 3}]

\* the region_division_level values: None (written 0), two tiers, three tiers
DivisionLevels == {0, 2, 3}

\* geo_utils.calculate_region_additional_delivery_fee called by the group of
\* a region
CalculateRegionAdditionalDeliveryFee(region_id, region_division_level, delivery_info) ==
    /\ call' = [name |-> "calculate_region_additional_delivery_fee", region_id |-> region_id,
                region_division_level |-> region_division_level,
                delivery_info |-> delivery_info,
                res |-> calculate_region_additional_delivery_fee(
                            region_id, region_division_level, delivery_info)]
    /\ UNCHANGED <<now, level, sku, product, group, order, trx_status, payment, point_units,
                   payment_refunds, events>>

NextRegion ==
    \E region_id \in {MAINLAND, JEJU, OUTSIDE_JEJU} :
       \E region_division_level \in DivisionLevels : \E delivery_info \in Schedules :
          CalculateRegionAdditionalDeliveryFee(region_id, region_division_level, delivery_info)

SpecRegion == InitStatus /\ [][NextRegion]_vars

----------------------------------------------------------------------------
(* Eligibility of a cancellation request *)

ContextStatuses ==
    {CHECK_REQUIRED, SHIP_OK, DELIVERY_ING, DELIVERY_OK, REFUND_INSPECT_PASS,
     ORDER_FAIL_CHECK_REJECTED, ORDER_FAIL_SHIP_REJECTED, REFUND_FINISHED_NORMAL}

\* the members of DeliveryTransaction.OrderCancelationContext
OrderCancelationContext ==
    {MARKETPLACE_ORDER_CANCEL, BACKOFFICE_ORDER_CANCEL_ON_ClAIM,
     BACKOFFICE_ORDER_CANCEL_ON_SUPPLIER_REJECTION,
     BACKOFFICE_ORDER_CANCEL_ON_SUPPLIER_CHECK_REJECTION,
     BACKOFFICE_ORDER_CANCEL_ON_SUPPLIER_SHIP_REJECTION,
     BACKOFFICE_ORDER_CANCEL_ON_SPECIAL_CASE}

\* a refund_context string that is no member of the enumeration
UNKNOWN_CONTEXT == "unknown_context"

RequestContexts == OrderCancelationContext \cup {UNKNOWN_CONTEXT}

NextContext ==
    \/ \E l \in {"s1", "s3"} : \E context \in ContextStatuses : UpdateStatus(l, context)
    \/ \E l \in {"s1", "s3"} : \E refund_context \in RequestContexts :
          GetRefundContext(l, refund_context)
    \/ \E l \in {"s1", "s3"} :
          CalculateRefundPriceOnPartialCancelation(l, UNKNOWN_CONTEXT)

SpecContext == InitStatus /\ [][NextContext]_vars

----------------------------------------------------------------------------
(* The return fee of delivered lines.  g2 is a supplier delivery group of   *)
(* p2 and p3, with different fees in CancelProducts and the same fee in     *)
(* EqualProducts.                                                           *)

EqualProducts ==
    [p \in Products |->
        IF p = "p1" THEN NewProduct("g1", FREE, 0, 1)
        ELSE NewProduct("g2", REGULAR_CHARGE, 3, 1)]

ReturnStatuses == {DELIVERY_OK, REFUND_REQUESTED, REFUND_FINISHED_NORMAL}

InitReturn ==
    \/ Created(CancelProducts, CancelGroups)
    \/ Created(EqualProducts, CancelGroups)

NextReturn ==
    \/ \E l \in {"s3", "s4"} : \E context \in ReturnStatuses : UpdateStatus(l, context)
    \/ \E l \in {"s1", "s3", "s4"} : CalculateReturnDeliveryFee(l)
    \/ CalculateRefundPriceOnPartialCancelation("s3", BACKOFFICE_ORDER_CANCEL_ON_ClAIM)

SpecReturn == InitReturn /\ [][NextReturn]_vars

----------------------------------------------------------------------------
(* Cancellations on a supplier's rejection followed by their settlement:   *)
(* the paid order of the cancellation layout, whose group g1 takes a loss  *)
(* fee when s1 is cancelled before s2.                                     *)

LossPointLists == { <<Pt(2, 1, None)>>, <<>> }

LossLines == {"s1", "s2"}

InitLoss ==
    \E points \in LossPointLists :
        PaidOrder(CancelProducts, CancelGroups, points, NewPointUnits(points, 0))

\* DeliverySku.get_refund_amount_on_cs_modal on a line that is still countable
RefundAmountOnCsModal(l, expected_refund_amount) ==
    /\ countable(sku[l].status)
    /\ SetPartialCancelationOutstandings(l, expected_refund_amount, FALSE)

NextLoss ==
    \/ \E l \in LossLines :
          CalculateRefundPriceOnPartialCancelation(
              l, BACKOFFICE_ORDER_CANCEL_ON_SUPPLIER_SHIP_REJECTION)
    \/ \E l \in LossLines, amount \in 1..MaxExpected : RefundAmountOnCsModal(l, amount)
    \/ DeductOnCancel
    \/ \E l \in LossLines : UpdateStatus(l, REFUND_FINISHED_SHIP_REJECTED)

SpecLoss == InitLoss /\ [][NextLoss]_vars

----------------------------------------------------------------------------
(* Checkout: the payment record is written, the transaction takes the      *)
(* status of the gateway's answer and the answer is processed              *)

CheckoutPointLists == { <<Pt(2, 1, None)>>, <<>> }

CompleteResults == {"invalid_payment_trial", "validation_fail", "success"}

TransactionStatuses == {TRX_PAYMENT_IN_PROGRESS, TRX_PAID, TRX_FAILED}

NextCheckout ==
    \/ \E points \in CheckoutPointLists : SetPaymentOutstandings(points)
    \/ \E context \in TransactionStatuses : TransactionUpdateStatus(context)
    \/ \E res \in CompleteResults : ProcessPgCompleteOrderResult(res)
    \/ AddUpEvents("transaction")
    \/ AddUpEventsOfOtherTransaction

SpecCheckout == InitStatus /\ [][NextCheckout]_vars

----------------------------------------------------------------------------
(* The fields that a change of status stamps, while the clock moves on *)

StampStatuses ==
    {PAYMENT_REQUIRED, CHECK_REQUIRED, EXCHANGE_REQUESTED, REFUND_REQUESTED,
     ORDER_FINISHED, ORDER_FINISHED_REVIEWED, REFUND_FAIL_RETURN_NO,
     REFUND_FAIL_INSPECT_REJECTED_DO, REFUND_FAIL_AGREE_REJECTED,
     REFUND_FINISHED_NORMAL, DELIVERY_OK}

\* the order as loaded, line s1 with either way of charging the fee of a return
InitStamp ==
    \E method \in {DEFAULT, CUSTOMER_CHARGE_CARD_CANCEL} :
        CreatedFrom([l \in Lines |->
                        IF l = "s1" THEN [NewSku EXCEPT !.refund_delivery_fee_method = method]
                        ELSE NewSku],
                    PayProducts, PayGroups)

NextStamp ==
    \/ Tick
    \/ \E context \in StampStatuses : UpdateStatus("s1", context)

SpecStamp == InitStamp /\ [][NextStamp]_vars

----------------------------------------------------------------------------
(* Delivery: the lines of one tracking are shipped, the carrier reports     *)
(* levels in any order, and the statuses follow by the callback or by the  *)
(* fast-forward                                                             *)

TrackStatuses ==
    {SHIP_OK, EXCHANGE_RESHIP_OK, EXCHANGE_FAIL_INSPECT_REJECTED,
     EXCHANGE_FAIL_RESHIP_REJECTED, REFUND_FAIL_INSPECT_REJECTED, REFUND_REQUESTED}

\* the levels a carrier reports: accepted, in transit, delivered, and one above
TrackLevels == {1, 3, 6, 7}

TrackLines == {"s1", "s2"}

NextTrack ==
    \/ \E l \in TrackLines : \E context \in TrackStatuses : UpdateStatus(l, context)
    \/ \E l \in TrackLines : FastforwardUpdate(l)
    \/ \E current_level \in TrackLevels : UpdateTrackingDetail(current_level)
    \/ UpdateSkusOnDeliveryTrackingCallback

SpecTrack == InitStatus /\ [][NextTrack]_vars

----------------------------------------------------------------------------
(* Lines that are unselected in the cart and selected again, between the   *)
(* aggregation pass and the calculations on one product or one group       *)

\* p1, charged by the unit, is alone in a group without a supplier delivery
\* group, in a region with a surcharge of 2
UnitProducts ==
    [p \in Products |->
        IF p = "p1" THEN NewProduct("g1", UNIT_CHARGE, 1, 2)
        ELSE NewProduct("g2", REGULAR_CHARGE, 1, 1)]

UnitGroups ==
    [g \in Groups |->
        IF g = "g1" THEN NewGroup("", "", OUTSIDE_JEJU, 3)
        ELSE NewGroup("sdg2", "max", MAINLAND, 0)]

InitSelect ==
    \/ Created(CancelProducts, CancelGroups)
    \/ Created(UnitProducts, UnitGroups)

SelectionStatuses == {UNSELECTED_IN_CART, PAYMENT_REQUIRED}

NextSelect ==
    \/ \E l \in {"s1", "s2"} : \E context \in SelectionStatuses : UpdateStatus(l, context)
    \/ OrderCalculateFees
    \/ DeliveryProductCalculateDeliveryFee("p1")
    \/ CalculateDeliveryFeeOnGroup("g1")

SpecSelect == InitSelect /\ [][NextSelect]_vars

----------------------------------------------------------------------------
(* Properties of the settlement of cancellations *)

\* the point unit of the payment with the given id
LiveUnit(id) == point_units[CHOOSE i \in 1..Len(point_units) : point_units[i].id = id]

\* the record of a partial cancellation has just been written
PartialSettled == call.name = "set_partial_cancelation_outstandings"

\* the amount the record takes from the point unit of its entry i: the balance
\* of the point unit less the balance the record leaves it
Deducted(i) ==
    LET entry == payment.outstandings.points_to_cancel[i]
    IN  LiveUnit(entry.id).curr_point_amount - entry.curr_point_amount

Deductions ==
    [i \in 1..Len(payment.outstandings.points_to_cancel) |-> Deducted(i)]

\* C1: after set_partial_cancelation_outstandings with a refund amount R >= 0,
\* the amount deducted from each point unit lies between 0 and the balance of
\* the unit, and the deductions and the gateway refund amount add up to R; on
\* the point units (priority 1, balance 2) and (priority 2, balance 5) with
\* R = 4 the deductions are 2 and 2, the second unit keeps 3, the gateway 0
C1_ExactApportionment ==
    (PartialSettled /\ call.refund_amount >= 0) =>
        LET out == payment.outstandings
            ptc == out.points_to_cancel
        IN  /\ \A i \in 1..Len(ptc) :
                  /\ Deducted(i) >= 0
                  /\ Deducted(i) <= LiveUnit(ptc[i].id).curr_point_amount
            /\ SumSeq(Deductions) + out.pg_to_cancel.refund_amount = call.refund_amount
            /\ (/\ call.refund_amount = 4
                /\ [i \in 1..Len(point_units) |->
                       <<point_units[i].priority, point_units[i].curr_point_amount,
                         point_units[i].delivery_sku_id>>]
                     = <<(<<1, 2, None>>), (<<2, 5, None>>)>>)
               => /\ Deductions = <<2, 2>>
                  /\ ptc[2].curr_point_amount = 3
                  /\ out.pg_to_cancel.refund_amount = 0

\* the balance the record leaves the point unit with the given id
Retained(id) ==
    LET ptc == payment.outstandings.points_to_cancel
    IN  IF InRecord(ptc, id) THEN CancelEntry(ptc, id).curr_point_amount
        ELSE LiveUnit(id).curr_point_amount

DeductedBefore(u, v) ==
    \/ u.delivery_sku_id # None /\ v.delivery_sku_id = None
    \/ /\ (u.delivery_sku_id = None) = (v.delivery_sku_id = None)
       /\ u.priority < v.priority

Settled == payment.outstandings.kind = "empty"

\* C5: after any sequence of partial cancellations no point unit has a negative
\* curr_point_amount or a refund_amount above its init_point_amount
C5_NoOverDeduction ==
    Settled =>
        \A i \in 1..Len(point_units) :
            /\ point_units[i].curr_point_amount >= 0
            /\ point_units[i].refund_amount <= point_units[i].init_point_amount

\* C6: the gateway refunds logged in payment_refunds add up to at most
\* init_pg_amount, and the gateway refund of a settlement is at most
\* curr_pg_amount
C6_NoGatewayOverRefund ==
    /\ SumSeq([i \in 1..Len(payment_refunds) |-> payment_refunds[i].pg_amount_for_refund])
          <= payment.init_pg_amount
    /\ PartialSettled =>
          payment.outstandings.pg_to_cancel.refund_amount <= payment.curr_pg_amount

\* C3: a second deduct_point_units on the record the first one was applied to
\* leaves curr_point_amount and refund_amount of every point unit as the first
\* call left them
C3_DeductIdempotent ==
    [][(call.name = "deduct_point_units" /\ call'.name = "deduct_point_units")
          => point_units' = point_units]_vars

\* C4: refund_amount + curr_point_amount = init_point_amount for every point
\* unit, whatever the order of create_point_units, the two settlements,
\* deduct_point_units and create_refund_logs
C4_PointConservation ==
    \A i \in 1..Len(point_units) :
        point_units[i].refund_amount + point_units[i].curr_point_amount
            = point_units[i].init_point_amount

----------------------------------------------------------------------------
(* Properties of the aggregation pass and of the statuses *)

\* quantity x sell_price over the countable lines of the set S
CountablePv(S) ==
    SumOver({l \in S : countable(sku[l].status)},
            [l \in Lines |-> quantity(l) * sell_price(l)])

FeesCalculated == call.name = "calculate_fees"

C8_NoStaleRead ==
    call.name = "set_payment_outstandings" =>
        LET c == CalculateFees(sku, product, group, order)
        IN  /\ order.curr_delivery_order_pv_amount = CountablePv(Lines)
            /\ order.curr_delivery_order_delivery_fee
                  = c.order.curr_delivery_order_delivery_fee

\* C9: a second calculate_fees right after a first one changes no field of a
\* line, product, group or the order
C9_CalculateFeesIdempotent ==
    [][(FeesCalculated /\ call'.name = "calculate_fees")
          => <<sku', product', group', order'>> = <<sku, product, group, order>>]_vars

\* the refund_finished_* and payment_fail_* statuses
terminal_statuses == not_countable_statuses \ {UNSELECTED_IN_CART}

\* C10: a line in a terminal not-countable status is not countable in the
\* next state, whatever operation runs
C10_TerminalStaysNotCountable ==
    [][\A l \in Lines :
          sku[l].status \in terminal_statuses => ~countable(sku'[l].status)]_vars

----------------------------------------------------------------------------
(* Properties of the fees of products and groups and of the refund price *)

ProductCalculated == call.name = "product.calculate_delivery_fee"

\* the lines of product p that are countable now
CountableLines(p) == {l \in SkusOf(p) : countable(sku[l].status)}

\* C11: right after calculate_delivery_fee on a UNIT_CHARGE product with a
\* delivery schedule and a countable line, the fee of the product is
\* base_delivery_fee x ceil(Q / charge_standard), Q the sum of the quantities
\* of its countable lines
C11_UnitChargeByQuantity ==
    ProductCalculated =>
        LET pr == product[call.product_id]
            Q == SumOver(CountableLines(call.product_id), [l \in Lines |-> quantity(l)])
        IN  (pr.delivery_pricing_method = UNIT_CHARGE /\ pr.delivery_info
                /\ CountableLines(call.product_id) # {})
            => pr.curr_calculated_product_delivery_fee
                  = pr.base_delivery_fee * CeilDiv(Q, pr.charge_standard)

\* the line states that differ from the present ones only in the status and
\* the value of lines of product p that are not countable, and in which these
\* lines are still not countable
NotCountableVariants(p) ==
    LET free == {l \in SkusOf(p) : ~countable(sku[l].status)}
    IN  { [l \in Lines |->
              IF l \in free
              THEN [sku[l] EXCEPT !.status = st[l], !.sku_pv_amount = amount[l]]
              ELSE sku[l]] :
          st \in [free -> {REFUND_FINISHED_ORDER_CANCELED, PAYMENT_FAIL_ERROR}],
          amount \in [free -> {0, 2, 5}] }

\* C12: right after calculate_delivery_fee the fee of the product is not
\* negative, it is 0 when the product has no delivery schedule or no countable
\* line, and the calculation gives the same fee on every state of the lines
\* that differs only in lines that are not countable
C12_FeeOfCountableLines ==
    ProductCalculated =>
        LET p == call.product_id
            fee == product[p].curr_calculated_product_delivery_fee
        IN  /\ fee >= 0
            /\ (~product[p].delivery_info \/ CountableLines(p) = {}) => fee = 0
            /\ \A sk \in NotCountableVariants(p) :
                  ProductCalculateDeliveryFee(p, product[p], sk).rec
                      .curr_calculated_product_delivery_fee = fee

\* calculate_delivery_fee has run on a product that charges a fee and has a
\* countable line and a cancelled line whose value is still stored
C12_Witness ==
    /\ ProductCalculated
    /\ product[call.product_id].curr_calculated_product_delivery_fee > 0
    /\ \E l \in SkusOf(call.product_id) :
          ~countable(sku[l].status) /\ sku[l].sku_pv_amount > 0
    /\ CountableLines(call.product_id) # {}

OnGroupCalculated == call.name = "calculate_delivery_fee_on_group"

\* the products of group g with a countable line
CountedProducts(g) == {p \in ProductsOf(g, product) : CountableLines(p) # {}}

C14_NoCountableLineNoFee ==
    call.name = "group.calculate_delivery_fee" =>
        LET gr == group[call.group_id]
        IN  CountedProducts(call.group_id) = {}
            => /\ gr.curr_calculated_group_delivery_fee = 0
               /\ gr.curr_group_delivery_discount = 0
               /\ gr.curr_region_additional_delivery_fee = 0

RegionCalculated == call.name = "calculate_region_additional_delivery_fee"

\* C15: the surcharge is 0 unless additional pricing is set; with additional
\* pricing set, a two-tier schedule charges division2_fee for every region
\* but MAINLAND, and a three-tier schedule charges 0 for MAINLAND,
\* division3_jeju_fee for JEJU and division3_outside_jeju_fee for OUTSIDE_JEJU
C15_RegionSurcharge ==
    RegionCalculated =>
        LET info == call.delivery_info
        IN  /\ ~info.is_additional_pricing_set => call.res = 0
            /\ (info.is_additional_pricing_set /\ call.region_division_level = 2
                    /\ call.region_id # MAINLAND)
               => call.res = info.division2_fee
            /\ (info.is_additional_pricing_set /\ call.region_division_level = 3)
               => call.res = (IF call.region_id = MAINLAND THEN 0
                              ELSE IF call.region_id = JEJU THEN info.division3_jeju_fee
                              ELSE info.division3_outside_jeju_fee)

\* JEJU under a two-tier schedule whose JEJU fee of three tiers differs from
\* its division2_fee
C15_Witness ==
    /\ RegionCalculated
    /\ call.region_id = JEJU
    /\ call.region_division_level = 2
    /\ call.delivery_info.is_additional_pricing_set
    /\ call.delivery_info.division2_fee = 3
    /\ call.delivery_info.division3_jeju_fee = 1
    /\ call.res = 3

PriceCalculated ==
    call.name = "calculate_refund_price_on_partial_cancelation" /\ call.calculated

\* the value of line l
LineValue(l) == sell_price(l) * quantity(l)

\* the group of line l is the group of one product outside a supplier
\* delivery group
InVirtualGroup(l) == group[delivery_group_id(l)].supplier_delivery_group_id = ""

\* C16: when the cancellation of a line of a single-product group would raise
\* the fee of the group by more than the value of the line, the request is
\* not rejected: a price is returned, the loss_fee of the group is the rise
\* and the price is the value of the line
C16_ShortfallAbsorbed ==
    (PriceCalculated /\ InVirtualGroup(call.sku_id) /\ call.delivery_fee_difference < 0
        /\ LineValue(call.sku_id) < Abs(call.delivery_fee_difference))
    => /\ ~call.returned_none
       /\ group[delivery_group_id(call.sku_id)].loss_fee = Abs(call.delivery_fee_difference)
       /\ call.price = LineValue(call.sku_id)

\* C17: in the contexts marketplace cancel, supplier check rejection and
\* supplier ship rejection, a negative fee difference on a line of a
\* single-product group is written to the loss_fee of the group and the price
\* is the value of the line; the loss_fee of a supplier delivery group of
\* several products is never written
C17_NegativeDeltaAbsorbed ==
    (PriceCalculated
        /\ call.refund_context \in {MARKETPLACE_ORDER_CANCEL,
                                    BACKOFFICE_ORDER_CANCEL_ON_SUPPLIER_CHECK_REJECTION,
                                    BACKOFFICE_ORDER_CANCEL_ON_SUPPLIER_SHIP_REJECTION})
    => /\ (InVirtualGroup(call.sku_id) /\ call.delivery_fee_difference < 0)
          => /\ ~call.returned_none
             /\ group[delivery_group_id(call.sku_id)].loss_fee
                   = Abs(call.delivery_fee_difference)
             /\ call.price = LineValue(call.sku_id)
       /\ ~InVirtualGroup(call.sku_id) => group[delivery_group_id(call.sku_id)].loss_fee = 0

\* the cached counts and fee of every product, and the cached fee, discount
\* and surcharge of every group
FeeCaches(prs, grs) ==
    <<[p \in Products |-> <<prs[p].number_of_skus_to_consider,
                            prs[p].number_of_quantity_to_consider,
                            prs[p].curr_calculated_product_delivery_fee>>],
      [g \in Groups |-> <<grs[g].curr_calculated_group_delivery_fee,
                          grs[g].curr_group_delivery_discount,
                          grs[g].curr_region_additional_delivery_fee>>]>>

\* C18: a call of calculate_refund_price_on_partial_cancelation that
\* calculates the fee difference leaves the status of every line and the
\* cached counts and fees of every product and group as they were, and when
\* it rejects the request (returns no price) the loss_fee of every group too
C18_DeltaSideEffectFree ==
    [][(call'.name = "calculate_refund_price_on_partial_cancelation" /\ call'.calculated)
          => /\ \A l \in Lines : sku'[l].status = sku[l].status
             /\ FeeCaches(product', group') = FeeCaches(product, group)
             /\ call'.returned_none
                   => \A g \in Groups : group'[g].loss_fee = group[g].loss_fee]_vars

\* the pricing methods DeliveryProduct.calculate_delivery_fee knows
PricingMethods == {FREE, UNIT_CHARGE, CONDITIONAL_CHARGE, REGULAR_CHARGE}

\* a product with a delivery schedule and a countable line has an unknown or
\* empty pricing method
Misconfigured ==
    \E p \in Products :
        /\ product[p].delivery_info
        /\ CountableLines(p) # {}
        /\ product[p].delivery_pricing_method \notin PricingMethods

\* C19: when a product with a delivery schedule and a countable line has an
\* unknown or empty pricing method, calculate_fees raises InvalidPricingMethod,
\* and the call that raises leaves every line, product, group and the order
\* as they were
C19_InvalidMethodNoMutation ==
    [][/\ (Misconfigured /\ call'.name = "calculate_fees") => FALSE
       /\ (call'.name = "InvalidPricingMethod" /\ call'.raised_in = "calculate_fees")
             => <<sku', product', group', order'>> = <<sku, product, group, order>>]_vars

\* get_refund_context has just answered
ContextAnswered == call.name = "get_refund_context"

\* the statuses of a line that has been shipped or delivered
ShippedStatuses == {SHIP_OK, DELIVERY_ING, DELIVERY_OK}

\* C20: get_refund_context answers a marketplace cancel with that context
\* exactly when the line is payment_required or check_required, a backoffice
\* cancel on claim with that context exactly when the line is
\* refund_inspect_pass, a supplier rejection with the check-rejection context
\* on order_fail_check_rejected and with the ship-rejection context on
\* order_fail_ship_rejected, and everything else with the empty result; a
\* shipped or delivered line is never eligible for a marketplace cancel
C20_RefundContextMapping ==
    ContextAnswered =>
        LET st == sku[call.sku_id].status
            asked == call.refund_context
        IN /\ asked = MARKETPLACE_ORDER_CANCEL =>
                 call.res = IF st \in {PAYMENT_REQUIRED, CHECK_REQUIRED} THEN asked ELSE ""
           /\ asked = BACKOFFICE_ORDER_CANCEL_ON_ClAIM =>
                 call.res = IF st = REFUND_INSPECT_PASS THEN asked ELSE ""
           /\ asked = BACKOFFICE_ORDER_CANCEL_ON_SUPPLIER_REJECTION =>
                 call.res = IF st = ORDER_FAIL_CHECK_REJECTED
                            THEN BACKOFFICE_ORDER_CANCEL_ON_SUPPLIER_CHECK_REJECTION
                            ELSE IF st = ORDER_FAIL_SHIP_REJECTED
                            THEN BACKOFFICE_ORDER_CANCEL_ON_SUPPLIER_SHIP_REJECTION
                            ELSE ""
           /\ asked \notin {MARKETPLACE_ORDER_CANCEL, BACKOFFICE_ORDER_CANCEL_ON_ClAIM,
                            BACKOFFICE_ORDER_CANCEL_ON_SUPPLIER_REJECTION} => call.res = ""
           /\ (st \in ShippedStatuses /\ asked = MARKETPLACE_ORDER_CANCEL) => call.res = ""

\* a marketplace cancel was asked for a line that is shipped or delivered
C20_Witness ==
    /\ ContextAnswered
    /\ call.refund_context = MARKETPLACE_ORDER_CANCEL
    /\ sku[call.sku_id].status \in ShippedStatuses
    /\ call.res = ""

----------------------------------------------------------------------------
(* Properties of the refund contexts, the return fee, the settlement and   *)
(* the events                                                              *)

\* get_refund_context or calculate_refund_price_on_partial_cancelation has
\* returned to its caller
ContextCallReturned ==
    call.name \in {"get_refund_context", "calculate_refund_price_on_partial_cancelation"}

\* C21: get_refund_context and calculate_refund_price_on_partial_cancelation
\* return a result (a context, the empty context, None or a price) only for a
\* context of the enumeration; for any other context they fail
C21_UnknownContextFails ==
    ContextCallReturned => call.refund_context \in OrderCancelationContext

\* calculate_return_delivery_fee has calculated the return fee of a line
ReturnFeeCalculated == call.name = "calculate_return_delivery_fee" /\ call.calculated

\* the product of line l has the largest fee among the products of its group
\* that have a countable line, and no other of them has that fee
UniqueMaximum(l) ==
    LET p == ProductOf(l)
        counted == CountedProducts(product[p].delivery_group)
        fee(q) == product[q].curr_calculated_product_delivery_fee
    IN  /\ counted # {}
        /\ \A q \in counted : fee(q) <= fee(p)
        /\ \A q \in counted \ {p} : fee(q) # fee(p)

\* C22: when calculate_return_delivery_fee calculates the return fee of a
\* line, the line counts as delivered for free, and its fee is taken from
\* refund_delivery_fee_if_free_delivery, exactly when the fee of its product
\* is the unique maximum among the products of the group with a countable
\* line; otherwise the fee is taken from refund_delivery_fee
C22_FreeWhenUniqueMaximum ==
    ReturnFeeCalculated =>
        /\ call.is_delivered_for_free = UniqueMaximum(call.sku_id)
        /\ sku[call.sku_id].calculated_refund_delivery_fee =
              calculate_delivery_fee_on_return_check(
                  call.sku_id, UniqueMaximum(call.sku_id), product, group)

\* C23: settle_refund_amount on line L selects only point units of the order
\* (no delivery_sku_id) and point units of L, and hands on at most the
\* expected refund amount: the point unit of another line is never selected
\* and its balance is never added, also when L is the last countable line of
\* its group
C23_OnlyOwnAndOrderWideCredits ==
    PartialSettled =>
        /\ \A id \in call.units : LiveUnit(id).delivery_sku_id \in {None, call.sku_id}
        /\ call.refund_amount <= call.expected_refund_amount

\* what the record out settles: the amount on the gateway and the balance it
\* leaves each point unit of pus
Apportioned(out, pus) ==
    [pg |-> out.pg_to_cancel.refund_amount,
     left |-> [i \in 1..Len(pus) |->
                  IF InRecord(out.points_to_cancel, pus[i].id)
                  THEN CancelEntry(out.points_to_cancel, pus[i].id).curr_point_amount
                  ELSE pus[i].curr_point_amount]]

\* C24: the deductions and the gateway amount that a partial cancellation
\* writes are those of every run on the same point units, line and expected
\* refund amount, in whatever order the point units are iterated, also when
\* two of them have the same scope and priority
C24_ApportionmentDeterministic ==
    [][call'.name = "set_partial_cancelation_outstandings" =>
          \A iter \in IterationOrders(1..Len(point_units)) :
              LET settled == settle_refund_amount(call'.sku_id, call'.expected_refund_amount,
                                                  sku, group, payment, point_units, iter)
              IN  Apportioned(PartialCancelationOutstandings(
                                  call'.sku_id, settled.units, settled.refund_amount),
                              point_units)
                    = Apportioned(payment'.outstandings, point_units)]_vars

\* the entries create_refund_logs appends in the step
NewRefunds == SubSeq(payment_refunds', Len(payment_refunds) + 1, Len(payment_refunds'))

\* C25: the entries create_refund_logs appends for the record of a partial
\* cancellation hold what that cancellation reverses: each point entry the
\* amount the record takes from its point unit, the gateway entry the gateway
\* amount of the record, and together the refund amount of the cancellation,
\* also for a point unit that an earlier cancellation has refunded in part
C25_LogsWhatWasReversed ==
    [][(PartialSettled /\ call'.name = "create_refund_logs") =>
          LET out == payment.outstandings
              ptc == out.points_to_cancel
          IN  /\ \A i \in 1..Len(NewRefunds) :
                    IF NewRefunds[i].point_unit_id # 0
                    THEN NewRefunds[i].point_amount_for_refund =
                            LiveUnit(NewRefunds[i].point_unit_id).curr_point_amount
                              - CancelEntry(ptc, NewRefunds[i].point_unit_id).curr_point_amount
                    ELSE NewRefunds[i].pg_amount_for_refund = out.pg_to_cancel.refund_amount
              /\ SumSeq([i \in 1..Len(NewRefunds) |->
                            NewRefunds[i].point_amount_for_refund
                              + NewRefunds[i].pg_amount_for_refund])
                    = call.refund_amount]_vars

\* C26: the refund amount that settle_refund_amount hands to the
\* apportionment, the gateway amount of the record and the amount the record
\* takes from each point unit are never negative, so that no point unit gets
\* a larger balance from a cancellation, also on the last line of a group
\* that has a loss fee
C26_PayoutNeverNegative ==
    PartialSettled =>
        /\ call.refund_amount >= 0
        /\ payment.outstandings.pg_to_cancel.refund_amount >= 0
        /\ \A i \in 1..Len(payment.outstandings.points_to_cancel) : Deducted(i) >= 0

\* C27: process_pg_complete_order_result appends to the queue of the
\* transaction PGPaymentCompleted with the target status check_required, after
\* setting both gateway amounts from the payment record, when the transaction
\* is PAID, PGPaymentFailed when it is FAILED, and nothing for an
\* invalid_payment_trial result or any other status of the transaction; no
\* entry of the queue is ever null
C27_ZeroOrOneEvent ==
    [][call'.name = "process_pg_complete_order_result" =>
          LET appended(e) == events'.transaction = Append(events.transaction, e)
          IN  /\ events'.payment = events.payment
              /\ events'.sku = events.sku
              /\ \A i \in 1..Len(events'.transaction) :
                    events'.transaction[i].signature # None
              /\ IF call'.res = "invalid_payment_trial"
                 THEN events' = events
                 ELSE IF trx_status = TRX_PAID
                 THEN /\ \E e \in {events'.transaction[Len(events'.transaction)]} :
                            /\ appended(e)
                            /\ e.signature = "PGPaymentCompleted"
                            /\ e.sku_status_to_change = CHECK_REQUIRED
                      /\ payment'.init_pg_amount = payment.outstandings.pg_amount
                      /\ payment'.curr_pg_amount = payment.outstandings.pg_amount
                 ELSE IF trx_status = TRX_FAILED
                 THEN \E e \in {events'.transaction[Len(events'.transaction)]} :
                            appended(e) /\ e.signature = "PGPaymentFailed"
                 ELSE events' = events]_vars

\* C28: the events appended to the queue of one transaction are not seen
\* through the queue of another transaction: when the events of another
\* aggregate's transaction are collected, none of this aggregate's events is
\* among them
C28_NoSharedEventQueue ==
    call.name = "add_up_events_of_other_transaction" => call.collected = <<>>

\* the products whose fee the last call has calculated
JustCalculated ==
    IF ProductCalculated THEN {call.product_id}
    ELSE IF OnGroupCalculated THEN ProductsOf(call.group_id, product)
    ELSE {}

\* C29: right after calculate_delivery_fee on a CONDITIONAL_CHARGE product with
\* a delivery schedule and a countable line, called directly or through
\* calculate_delivery_fee_on_group, the fee of the product is 0 when the sum of
\* quantity x sell_price over its countable lines is at least charge_standard,
\* and base_delivery_fee otherwise
C29_ConditionalChargeByLineValue ==
    \A p \in JustCalculated :
        (/\ product[p].delivery_pricing_method = CONDITIONAL_CHARGE
         /\ product[p].delivery_info
         /\ CountableLines(p) # {})
        => product[p].curr_calculated_product_delivery_fee
              = IF SumOver(CountableLines(p), [l \in Lines |-> quantity(l) * sell_price(l)])
                      >= product[p].charge_standard
                THEN 0 ELSE product[p].base_delivery_fee

\* the groups whose fees the last call has calculated
JustRecomputed ==
    IF FeesCalculated THEN Groups
    ELSE IF OnGroupCalculated THEN {call.group_id}
    ELSE {}

\* the groups without a supplier delivery group whose single product is
\* charged by the unit, has a delivery schedule and a countable line
UnitChargedAlone(g) ==
    /\ group[g].supplier_delivery_group_id = ""
    /\ \E p \in Products :
          /\ ProductsOf(g, product) = {p}
          /\ product[p].delivery_pricing_method = UNIT_CHARGE
          /\ product[p].delivery_info
          /\ CountableLines(p) # {}

\* the largest unit count of the orders modelled: the quantities of all lines
AllUnits == SumOver(Lines, [l \in Lines |-> quantity(l)])

\* C30: right after the fees of a group without a supplier delivery group are
\* calculated, when its single product is charged by the unit and has a
\* countable line, there is one unit count u such that the fee of the product is
\* base_delivery_fee x u and the surcharge of the group is the surcharge of its
\* region x u
C30_SameUnitCount ==
    \A g \in JustRecomputed :
        UnitChargedAlone(g)
        => \E u \in 0..AllUnits :
              \A p \in ProductsOf(g, product) :
                  /\ product[p].curr_calculated_product_delivery_fee
                        = product[p].base_delivery_fee * u
                  /\ group[g].curr_region_additional_delivery_fee
                        = get_original_region_additional_delivery_fee(group[g]) * u

----------------------------------------------------------------------------
(* Properties of the claim context, the last line, the status operations,  *)
(* the cancellation record and the collection of events                    *)

\* C31: calculate_refund_price_on_partial_cancelation in the context of a
\* return claim (backoffice_order_cancel_on_claim) on a line with a group
\* returns the value of the line: it does not add the difference of the
\* group's fee and does not return None on account of a negative difference
C31_ClaimPriceWithoutFeeDelta ==
    (/\ call.name = "calculate_refund_price_on_partial_cancelation"
     /\ call.refund_context = BACKOFFICE_ORDER_CANCEL_ON_ClAIM)
    => /\ ~call.returned_none
       /\ call.price = LineValue(call.sku_id)

PartialSet == call.name = "set_partial_cancelation_outstandings"

\* every other line of the group of line l has a status that is not countable
NoOtherCountable(l) ==
    \A m \in Lines \ {l} :
        delivery_group_id(m) = delivery_group_id(l) => ~countable(sku[m].status)

\* the balances of the point units of the group of line l that belong to
\* other lines
OtherBalances(l) ==
    SumOver({i \in 1..Len(point_units) :
                /\ point_units[i].delivery_group_id # None
                /\ point_units[i].delivery_group_id = delivery_group_id(l)
                /\ point_units[i].delivery_sku_id # l},
            [i \in 1..Len(point_units) |-> point_units[i].curr_point_amount])

\* the fee of the return that the customer pays by card cancellation
ReturnFeeByCard(l) ==
    IF sku[l].refund_delivery_fee_method = CUSTOMER_CHARGE_CARD_CANCEL
    THEN sku[l].calculated_refund_delivery_fee ELSE 0

OtherFields(sk) ==
    [sku_pv_amount |-> sk.sku_pv_amount,
     calculated_refund_delivery_fee |-> sk.calculated_refund_delivery_fee]

\* C33: update_status(target) on a line sets its status to target whatever it
\* was; request_status and request_status_date are written (target, the
\* current time) exactly for the targets payment_required, check_required,
\* exchange_requested and refund_requested, purchased_finalized_date exactly
\* for order_finished, refund_delivery_fee_method (DEFAULT) exactly for
\* refund_fail_return_no, refund_fail_inspect_rejected_do and
\* refund_fail_agree_rejected; nothing else of the line, no other line and no
\* product, group or order changes
C33_UpdateStatusEffects ==
    [][call'.name = "update_status" =>
        LET l == call'.sku_id
            target == call'.context
        IN  /\ sku'[l].status = target
            /\ sku'[l].request_status =
                  IF target \in {PAYMENT_REQUIRED, CHECK_REQUIRED, EXCHANGE_REQUESTED,
                                 REFUND_REQUESTED}
                  THEN target ELSE sku[l].request_status
            /\ sku'[l].request_status_date =
                  IF target \in {PAYMENT_REQUIRED, CHECK_REQUIRED, EXCHANGE_REQUESTED,
                                 REFUND_REQUESTED}
                  THEN now ELSE sku[l].request_status_date
            /\ sku'[l].purchased_finalized_date =
                  IF target = ORDER_FINISHED THEN now ELSE sku[l].purchased_finalized_date
            /\ sku'[l].refund_delivery_fee_method =
                  IF target \in {REFUND_FAIL_RETURN_NO, REFUND_FAIL_INSPECT_REJECTED_DO,
                                 REFUND_FAIL_AGREE_REJECTED}
                  THEN DEFAULT ELSE sku[l].refund_delivery_fee_method
            /\ OtherFields(sku'[l]) = OtherFields(sku[l])
            /\ \A m \in Lines \ {l} : sku'[m] = sku[m]
            /\ UNCHANGED <<product, group, order, trx_status, payment, point_units,
                           payment_refunds, events, level, now>>]_vars

\* a line that had left the countable statuses was moved to order_finished
\* at a later time than its last request
C33_Witness ==
    /\ call.name = "update_status"
    /\ call.from = REFUND_FINISHED_NORMAL
    /\ call.context = ORDER_FINISHED
    /\ sku[call.sku_id].purchased_finalized_date = now
    /\ now > CreationTime
    /\ sku[call.sku_id].request_status_date < now

\* the single steps of fastforward_update
SingleSteps ==
    [from : {EXCHANGE_FAIL_INSPECT_REJECTED}, to : {EXCHANGE_FAIL_INSPECT_REJECTED_DO}]
    \cup [from : {EXCHANGE_FAIL_RESHIP_REJECTED}, to : {EXCHANGE_FAIL_RESHIP_REJECTED_DO}]
    \cup [from : {REFUND_FAIL_INSPECT_REJECTED}, to : {REFUND_FAIL_INSPECT_REJECTED_DO}]

\* C34: fastforward_update takes a line from ship_ok to delivery_ok and from
\* exchange_reship_ok to exchange_delivery_ok and appends exactly two log
\* entries, the first with the status of the step between (delivery_ing,
\* exchange_delivery_ing) and the second with the final status; from
\* exchange_fail_inspect_rejected, exchange_fail_reship_rejected and
\* refund_fail_inspect_rejected it makes the one step to the *_do status with
\* one log entry; from every other status it changes nothing and appends no log
C34_FastforwardSteps ==
    [][call'.name = "fastforward_update" =>
        LET l == call'.sku_id
            from == sku[l].status
        IN  /\ \A m \in Lines \ {l} : sku'[m] = sku[m]
            /\ IF from = SHIP_OK
               THEN /\ sku'[l].status = DELIVERY_OK
                    /\ call'.logs = <<DELIVERY_ING, DELIVERY_OK>>
               ELSE IF from = EXCHANGE_RESHIP_OK
               THEN /\ sku'[l].status = EXCHANGE_DELIVERY_OK
                    /\ call'.logs = <<EXCHANGE_DELIVERY_ING, EXCHANGE_DELIVERY_OK>>
               ELSE IF \E step \in SingleSteps : step.from = from
               THEN \E step \in SingleSteps :
                       /\ step.from = from
                       /\ sku'[l].status = step.to
                       /\ call'.logs = <<step.to>>
               ELSE /\ sku'[l] = sku[l]
                    /\ call'.logs = <<>>]_vars

\* a line in ship_ok was fast-forwarded
C34_Witness ==
    /\ call.name = "fastforward_update"
    /\ call.from = SHIP_OK
    /\ sku[call.sku_id].status = DELIVERY_OK
    /\ call.logs = <<DELIVERY_ING, DELIVERY_OK>>

CallbackRan == call.name = "update_skus_on_delivery_tracking_callback"

\* the transitions of the callback: in transit (levels 2 to 5) and delivered
\* (level 6)
InTransit ==
    [from : {SHIP_OK}, to : {DELIVERY_ING}]
    \cup [from : {EXCHANGE_RESHIP_OK}, to : {EXCHANGE_DELIVERY_ING}]

Delivered ==
    [from : {DELIVERY_ING}, to : {DELIVERY_OK}]
    \cup [from : {EXCHANGE_DELIVERY_ING}, to : {EXCHANGE_DELIVERY_OK}]
    \cup [from : {EXCHANGE_FAIL_INSPECT_REJECTED}, to : {EXCHANGE_FAIL_INSPECT_REJECTED_DO}]
    \cup [from : {REFUND_FAIL_INSPECT_REJECTED}, to : {REFUND_FAIL_INSPECT_REJECTED_DO}]

TransitionsAt(lv) == IF lv \in 2..5 THEN InTransit ELSE IF lv = 6 THEN Delivered ELSE {}

\* C35: update_skus_on_delivery_tracking_callback moves a line of the tracking
\* by the transition of its status at the level of the tracking (ship_ok and
\* exchange_reship_ok at levels 2 to 5; delivery_ing, exchange_delivery_ing,
\* exchange_fail_inspect_rejected and refund_fail_inspect_rejected at level 6)
\* and appends one log entry to it; a line without a transition at the level
\* is unchanged and gets no log entry
C35_CallbackTransitions ==
    [][CallbackRan' =>
        \A l \in Lines :
            LET steps == {t \in TransitionsAt(level) : t.from = sku[l].status}
            IN  IF steps # {}
                THEN /\ \E t \in steps : sku'[l] = [sku[l] EXCEPT !.status = t.to]
                     /\ Len(call'.logs[l]) = 1
                ELSE /\ sku'[l] = sku[l]
                     /\ call'.logs[l] = <<>>]_vars

\* at level 6 the callback moved a line from delivery_ing to delivery_ok while
\* another line had no transition
C35_Witness ==
    /\ CallbackRan
    /\ level = 6
    /\ \E l, m \in Lines :
          /\ sku[l].status = DELIVERY_OK
          /\ call.logs[l] = <<DELIVERY_OK>>
          /\ call.logs[m] = <<>>

\* C37: when update_skus_on_delivery_tracking_callback runs at level 6, every
\* line of the tracking that was in ship_ok or delivery_ing is in delivery_ok
\* after it, and every line that was in exchange_reship_ok or
\* exchange_delivery_ing is in exchange_delivery_ok, whether or not a callback
\* had run at a level from 2 to 5
C37_DeliveredAtLevelSix ==
    [][(CallbackRan' /\ level = 6) =>
        \A l \in Lines :
            /\ sku[l].status \in {SHIP_OK, DELIVERY_ING} => sku'[l].status = DELIVERY_OK
            /\ sku[l].status \in {EXCHANGE_RESHIP_OK, EXCHANGE_DELIVERY_ING}
                  => sku'[l].status = EXCHANGE_DELIVERY_OK]_vars

\* C36: set_partial_cancelation_outstandings and set_full_cancelation_outstandings
\* leave every point unit (curr_point_amount and refund_amount) and the
\* gateway amounts of the payment as they are, and the balance of a point unit
\* changes in deduct_point_units only
C36_RecordBeforeSideEffects ==
    [][/\ call'.name \in {"set_partial_cancelation_outstandings",
                          "set_full_cancelation_outstandings"}
          => /\ point_units' = point_units
             /\ payment'.init_pg_amount = payment.init_pg_amount
             /\ payment'.curr_pg_amount = payment.curr_pg_amount
       /\ (\E i \in 1..Len(point_units) :
              point_units'[i].curr_point_amount # point_units[i].curr_point_amount)
          => call'.name = "deduct_point_units"]_vars

\* C38: create_refund_logs leaves the outstanding record of the payment empty,
\* and while it is empty deduct_point_units and create_refund_logs do not run
\* to their end: they fail in get_cancelation_outstandings, and a call that
\* fails there changes no point unit, appends no refund entry and leaves the
\* payment as it is
C38_SettlementLoggedOnce ==
    [][/\ call'.name = "create_refund_logs" => payment'.outstandings = NoOutstandings
       /\ payment.outstandings = NoOutstandings
          => call'.name \notin {"deduct_point_units", "create_refund_logs"}
       /\ call' \in {RaisedInDeduct, RaisedInRefundLogs}
          => UNCHANGED <<point_units, payment_refunds, payment>>]_vars

\* create_refund_logs was called again after it had logged a settlement
C38_Witness ==
    /\ call = RaisedInRefundLogs
    /\ payment.outstandings = NoOutstandings
    /\ payment_refunds # <<>>

\* C39: get_refund_amount_on_cs_modal changes nothing: the outstanding record
\* and the gateway amounts of the payment, the point units, the groups
\* (loss_fee) and the events queues are after the call what they were before
C39_PreviewReadOnly ==
    [][call'.name = "get_refund_amount_on_cs_modal"
        => UNCHANGED <<payment, point_units, group, events>>]_vars

\* C40: _add_up_events leaves the events queue of the model empty, and the
\* collection of the repository then holds every event that was in the queue,
\* in the order of the queue, also when two of them have the same type
C40_EveryEventCollected ==
    [][call'.name = "add_up_events"
        => /\ events'[call'.model] = <<>>
           /\ call'.collected = events[call'.model]]_vars

====
